---- MODULE Spec2Model ----
(***************************************************************************)
(* Sandboxed tool execution supervisor of any-agent.                       *)
(*                                                                         *)
(* Spec      : the life of one POST /tools/execute request: validation,    *)
(*             workspace, tool handler (code_execution, document_converter)*)
(*             container, attach stream, timeout race, artifact manifest.  *)
(* LiveSpec  : Spec with the fairness the event loop and the engine give.  *)
(* SpecDemux : demuxDockerStream fed with a frame stream cut into chunks.  *)
(* SpecStore : job ids, workspace paths, writes and GET /artifacts.        *)
(* SpecFile  : writeWorkspaceFile on one file.                             *)
(* SpecRegistry : the ToolRegistry, GET /tools and the agent's tools.      *)
(* SpecBus   : the event bus of the web package.                           *)
(* SpecEvents : a chat request publishing chunks and GET /api/events.      *)
(* SpecProcessor : the stream processor of the web package.                *)
(***************************************************************************)
EXTENDS Integers, Sequences, FiniteSets, TLC

VARIABLES jobs, dmWire, dmRest, dmOut, dmErr, dispatched, disk, wsFile, wsLast,
          handlers, toolsReply, runStdout, agentTools, served, regLog,
          bus, sse, proc

vars ==
    <<jobs, dmWire, dmRest, dmOut, dmErr, dispatched, disk, wsFile, wsLast,
      handlers, toolsReply, runStdout, agentTools, served, regLog,
      bus, sse, proc>>

(***************************************************************************)
(* Bounds                                                                  *)
(***************************************************************************)
MaxLate == 1
MaxEmit == 1
MaxFrames == 2
MaxPayload == 2
MaxDispatch == 2
MaxContent == 4
MaxSubs == 2
MaxConns == 2
MaxChunks == 2
MaxEvents == 3
MaxRuns == 2

Jobs == {"j1"}
StatusCodes == {0, 5}
KilledStatus == {137}
PayloadBytes == {0, 97}
StreamTypes == {1, 2}
Filenames == {<<"a.py">>, <<"sub", "a.py">>, <<"stdout">>}
ContainerFiles == {<<"out.md">>, <<"d", "r.md">>}
RequestTools == {"", "code_execution", "document_converter", "web_search"}
RequestShapes == {"code", "doc", "both", "none"}
\* the timeout of a request as the set of integers nearest to it: empty when
\* the request omits it, the integer itself, or the two neighbours of a
\* number that is not an integer (1.5 is {1, 2})
RequestTimeouts == {{}, {0}, {1}, {901}, {1, 2}}

(***************************************************************************)
(* Program constants                                                       *)
(***************************************************************************)
TimeoutSentinel == -1
DefaultTimeout == 30
MinTimeout == 1
MaxTimeout == 900
HeaderSize == 8

(***************************************************************************)
(* Byte helpers                                                            *)
(***************************************************************************)
RECURSIVE Concat(_)
Concat(chunks) ==
    IF chunks = <<>> THEN <<>> ELSE Head(chunks) \o Concat(Tail(chunks))

ReadUInt32BE(chunk, offset) ==
    chunk[offset + 1] * 16777216 + chunk[offset + 2] * 65536
        + chunk[offset + 3] * 256 + chunk[offset + 4]

\* What the container runtime puts on the attach stream for one frame.
EncodeFrame(type, payload) ==
    <<type, 0, 0, 0, 0, 0, 0, Len(payload)>> \o payload

RECURSIVE EncodeFrames(_)
EncodeFrames(frames) ==
    IF frames = <<>> THEN <<>>
    ELSE EncodeFrame(Head(frames).type, Head(frames).payload)
             \o EncodeFrames(Tail(frames))

(***************************************************************************)
(* demuxDockerStream: one call per delivered chunk                         *)
(***************************************************************************)
RECURSIVE demuxLoop(_, _, _, _)
demuxLoop(chunk, offset, stdoutChunks, stderrChunks) ==
    IF ~(offset < Len(chunk)) THEN <<stdoutChunks, stderrChunks>>
    ELSE IF offset + HeaderSize > Len(chunk) THEN <<stdoutChunks, stderrChunks>>
    ELSE LET streamType == chunk[offset + 1]
             payloadSize == ReadUInt32BE(chunk, offset + 4)
         IN  IF offset + HeaderSize + payloadSize > Len(chunk)
             THEN <<stdoutChunks, stderrChunks>>
             ELSE LET payload == SubSeq(chunk, offset + HeaderSize + 1,
                                        offset + HeaderSize + payloadSize)
                  IN  demuxLoop(chunk, offset + HeaderSize + payloadSize,
                          IF streamType = 1 THEN Append(stdoutChunks, payload)
                                            ELSE stdoutChunks,
                          IF streamType = 2 THEN Append(stderrChunks, payload)
                                            ELSE stderrChunks)

demuxDockerStream(chunk, stdoutChunks, stderrChunks) ==
    demuxLoop(chunk, 0, stdoutChunks, stderrChunks)

(***************************************************************************)
(* Text                                                                    *)
(***************************************************************************)
\* Buffer.toString("utf-8") followed by the write of the string: bytes below
\* 0x80 are kept, a well-formed two-byte sequence is kept, any other byte of
\* the model's alphabet is replaced by U+FFFD (EF BF BD).  Negative numbers
\* stand for the fixed pieces of text of a message and are kept.
RECURSIVE Utf8RoundTrip(_)
Utf8RoundTrip(bytes) ==
    IF bytes = <<>> THEN <<>>
    ELSE LET b == Head(bytes) IN
         IF b < 128 THEN <<b>> \o Utf8RoundTrip(Tail(bytes))
         ELSE IF /\ b >= 194 /\ b <= 223 /\ Len(bytes) >= 2
                 /\ bytes[2] >= 128 /\ bytes[2] <= 191
              THEN <<b, bytes[2]>> \o Utf8RoundTrip(Tail(Tail(bytes)))
              ELSE <<239, 191, 189>> \o Utf8RoundTrip(Tail(bytes))

\* `\nConversion timed out after ${elapsedTime}s (timeout was set to ${timeout}s)\n`
TimeoutMessage(elapsedTime, timeout) ==
    <<-1001, elapsedTime, -1002, timeout, -1003>>

ContainsTimeoutMessage(content, timeout) ==
    \E i \in 1..Len(content) :
        /\ i + 4 <= Len(content)
        /\ content[i] = -1001
        /\ content[i + 2] = -1002
        /\ content[i + 3] = timeout
        /\ content[i + 4] = -1003

(***************************************************************************)
(* Workspace store                                                         *)
(***************************************************************************)
NoFiles == [p \in {} |-> <<>>]

\* writeWorkspaceFile: the file at workDir/filename holds content afterwards
writeWorkspaceFile(files, filename, content) ==
    [p \in (DOMAIN files) \cup {filename} |->
        IF p = filename THEN content ELSE files[p]]

\* listWorkspaceFiles: readdir(workDir), the names of the direct entries; a
\* directory that does not exist gives []
listWorkspaceFiles(wsExists, files) ==
    IF wsExists THEN {<<p[1]>> : p \in DOMAIN files} ELSE {}

categorizeArtifacts(allFiles, inputFiles) ==
    [inputs  |-> {f \in allFiles : f \in inputFiles},
     outputs |-> {f \in allFiles : f \notin inputFiles}]

(***************************************************************************)
(* Request validation and registry                                         *)
(***************************************************************************)
\* ToolRequestSchemaAgentParams.safeParse
AgentParamsOk(tool, sessionOk, tmo) ==
    /\ tool # ""
    /\ sessionOk
    /\ Cardinality(tmo) <= 1
    /\ \A t \in tmo : t >= MinTimeout /\ t <= MaxTimeout

\* ParsedTimeout without the default of the schema
ParsedTimeoutNoDefault(tmo) ==
    IF tmo = {} THEN 0 ELSE CHOOSE t \in tmo : TRUE

\* parseAgentParamsResult.data.timeout
ParsedTimeout(tmo) ==
    IF tmo = {} THEN DefaultTimeout ELSE CHOOSE t \in tmo : TRUE

\* ToolRequestSchema.safeParse: a z.union, the first member that accepts the
\* body wins and the keys it does not declare are stripped.
ToolRequestVariant(shape) ==
    IF shape \in {"code", "both"} THEN "code"
    ELSE IF shape = "doc" THEN "doc"
    ELSE "none"

RegisteredTools == {"code_execution", "document_converter"}

\* the input shape each registered handler declares (inputSchema)
HandlerVariant(tool) ==
    IF tool = "code_execution" THEN "code" ELSE "doc"

(***************************************************************************)
(* State                                                                   *)
(***************************************************************************)
NoResponse ==
    [status |-> 0, error |-> "", details |-> "", availableTools |-> {},
     exitCode |-> {}, inputs |-> {}, outputs |-> {},
     stdout |-> {}, stderr |-> {}]

InitJob ==
    [pc |-> "idle", tool |-> "", reqSessionOk |-> FALSE, reqTimeout |-> {},
     reqShape |-> "none", variant |-> "none",
     filename |-> <<>>, timeout |-> 0, wsExists |-> FALSE, files |-> NoFiles, invoked |-> {},
     container |-> "none", hostConfig |-> {}, statusCode |-> {}, killCalls |-> 0,
     killFailed |-> FALSE,
     stream |-> <<>>, emitted |-> 0, attached |-> FALSE,
     wroteOut |-> <<>>, wroteErr |-> <<>>,
     stdoutChunks |-> <<>>, stderrChunks |-> <<>>,
     deadline |-> "none", runningAtDeadline |-> FALSE,
     timer |-> "none", elapsedTime |-> 0,
     exitCode |-> {}, timedOut |-> FALSE, outBuf |-> <<>>,
     response |-> NoResponse]

\* no register call yet: the handler last registered with each tool type,
\* the tool types in the order of their first registration, and whether a
\* tool type has been registered again
InitRegLog == [last |-> [t \in {} |-> {}], order |-> <<>>, replaced |-> FALSE]

\* no Bus.publish call yet
NoPublish ==
    [awaiting |-> FALSE, type |-> "", properties |-> "", startType |-> <<>>,
     startAll |-> <<>>, removed |-> {}, log |-> <<>>, pending |-> {},
     resolved |-> FALSE]

\* the module state of bus.ts: subscriptions is the Map (a key without entry
\* reads as the empty list, as `?? []` does).  created lists the calls of raw
\* with their key and callback, called the calls whose unsubscribe function
\* has been called, publish the last call of Bus.publish.
InitBusState ==
    [subscriptions |-> [key \in {"chat.message", "session.idle", "*"} |-> <<>>],
     created |-> <<>>, called |-> {}, publish |-> NoPublish]

\* the module state of the /api/events route and of one chat request:
\* activeConnections is the Map (its domain are the keys present), subs the
\* subscription list of ChatEvent on the bus, conns the connections opened
\* so far, published the chunks the chat request has published
InitSseState ==
    [chat |-> "none", published |-> <<>>, subs |-> <<>>,
     activeConnections |-> [sessionId \in {} |-> <<>>], conns |-> <<>>]

NoRetries == [count |-> 0, max |-> 0]

NoReturn == [shouldRetry |-> FALSE, failed |-> {}]

\* a processor right after createProcessor: no assistant message, empty
\* toolcalls table.  messages and parts are what Session.updateMessage and
\* Session.updatePart have stored (parts under message id and part id),
\* nextPart the next value of Identifier.ascending("part"), errorEvents the
\* Session.Event.Error events published; pc, retries, seen (the events taken
\* from streams so far), runs and ret follow the calls of process().
InitProcState ==
    [assistantMsg |-> {}, messages |-> <<>>,
     toolcalls |-> [c \in {} |-> {}], parts |-> [k \in {} |-> {}],
     nextPart |-> 1, errorEvents |-> {}, pc |-> "idle", retries |-> NoRetries,
     seen |-> 0, runs |-> 0, ret |-> NoReturn]

Init ==
    /\ jobs = [j \in Jobs |-> InitJob]
    /\ dmWire = <<>>
    /\ dmRest = <<>>
    /\ dmOut = <<>>
    /\ dmErr = <<>>
    /\ dispatched = <<>>
    /\ disk = {}
    /\ wsFile = {}
    /\ wsLast = {}
    /\ handlers = <<>>
    /\ toolsReply = {}
    /\ runStdout = <<>>
    /\ agentTools = {}
    /\ served = {}
    /\ regLog = InitRegLog
    /\ bus = InitBusState
    /\ sse = InitSseState
    /\ proc = InitProcState

DemuxIdle ==
    UNCHANGED <<dmWire, dmRest, dmOut, dmErr, dispatched, disk, wsFile, wsLast,
                handlers, toolsReply, runStdout, agentTools, served, regLog,
                bus, sse, proc>>

ErrorResponse(status, error, details) ==
    [status |-> status, error |-> error, details |-> details,
     availableTools |-> {}, exitCode |-> {}, inputs |-> {}, outputs |-> {},
     stdout |-> {}, stderr |-> {}]

\* the catch block of POST /tools/execute: details is the message of err
ExecutionFailed(j, message) ==
    jobs' = [jobs EXCEPT ![j].pc = "responded",
                         ![j].response =
                             ErrorResponse(500, "Tool execution failed", message)]

(***************************************************************************)
(* POST /tools/execute: validation and dispatch                            *)
(***************************************************************************)
\* the request body as it arrived
Request(tool, sessionOk, tmo, shape) ==
    [tool |-> tool, sessionOk |-> sessionOk, tmo |-> tmo, shape |-> shape]

Received(j, req) ==
    [jobs[j] EXCEPT !.tool = req.tool,
                    !.reqSessionOk = req.sessionOk,
                    !.reqTimeout = req.tmo,
                    !.reqShape = req.shape]

\* Rejected with the workspace created before the body is validated
RejectedAfterWorkspace(j, req, error) ==
    jobs' = [jobs EXCEPT ![j] =
                [Received(j, req) EXCEPT
                    !.pc = "responded",
                    !.wsExists = TRUE,
                    !.response = ErrorResponse(400, error, "issues")]]

\* reply.status(400).send({error, details: parseResult.error.issues})
Rejected(j, req, error) ==
    jobs' = [jobs EXCEPT ![j] =
                [Received(j, req) EXCEPT
                    !.pc = "responded",
                    !.response = ErrorResponse(400, error, "issues")]]

\* no handler is registered for the tool type: the reply names the
\* registered tool types
UnknownTool(j, req) ==
    jobs' = [jobs EXCEPT ![j] =
                [Received(j, req) EXCEPT
                    !.pc = "responded",
                    !.response =
                        [ErrorResponse(400, "Unknown tool type", "")
                            EXCEPT !.availableTools = RegisteredTools]]]

Receive(j, tool, sessionOk, tmo, shape, fname) ==
    /\ jobs[j].pc = "idle"
    /\ LET req == Request(tool, sessionOk, tmo, shape)
       IN  IF ~AgentParamsOk(tool, sessionOk, tmo)
           THEN Rejected(j, req, "Invalid request body (agent params)")
           ELSE IF ToolRequestVariant(shape) = "none"
           THEN Rejected(j, req, "Invalid request body (tool params)")
           ELSE IF tool \notin RegisteredTools
           THEN UnknownTool(j, req)
           ELSE jobs' = [jobs EXCEPT ![j] =
                            [Received(j, req) EXCEPT
                                !.pc = "createWorkspace",
                                !.variant = ToolRequestVariant(shape),
                                !.filename = fname,
                                !.timeout = ParsedTimeout(tmo)]]
    /\ DemuxIdle

\* createWorkspace resolves and handler.execute runs up to its first await.
\* A handler reading a field its input does not carry (fileContent or code
\* is undefined) throws before anything is written.
CreateWorkspace(j, ok) ==
    /\ jobs[j].pc = "createWorkspace"
    /\ IF ~ok
       THEN jobs' = [jobs EXCEPT ![j].pc = "responded",
                                 ![j].response =
                                     ErrorResponse(500, "Internal Server Error",
                                                   "createWorkspace failed")]
       ELSE LET call == [handler |-> jobs[j].tool, input |-> jobs[j].variant]
            IN  IF jobs[j].variant # HandlerVariant(jobs[j].tool)
                THEN jobs' = [jobs EXCEPT ![j].pc = "responded",
                                  ![j].wsExists = TRUE,
                                  ![j].invoked = {call},
                                  ![j].response =
                                      ErrorResponse(500, "Tool execution failed",
                                                    "TypeError")]
                ELSE jobs' = [jobs EXCEPT ![j].pc = "writeInput",
                                  ![j].wsExists = TRUE,
                                  ![j].invoked = {call}]
    /\ DemuxIdle

(***************************************************************************)
(* Tool handlers: CodeExecutionTool.execute, DocumentConverterTool.execute *)
(***************************************************************************)
InputContent == <<105>>

\* WriteInput with the container created before the input file is written
WriteInputSkipped(j, ok) ==
    /\ jobs[j].pc = "writeInput"
    /\ IF ok
       THEN jobs' = [jobs EXCEPT ![j].pc = "createContainer"]
       ELSE ExecutionFailed(j, "write input failed")
    /\ DemuxIdle

WriteInput(j, ok) ==
    /\ jobs[j].pc = "writeInput"
    /\ IF ok
       THEN jobs' = [jobs EXCEPT ![j].pc = "createContainer",
                         ![j].files = writeWorkspaceFile(jobs[j].files,
                                          jobs[j].filename, InputContent)]
       ELSE ExecutionFailed(j, "write input failed")
    /\ DemuxIdle

\* context.workDir: the directory createWorkspace returned for the job
WorkDirOf(j) == <<"workDir", j>>

\* CodeExecutionHostConfig with the default network of the engine
CodeExecutionHostConfigBridged(workDir) ==
    [Binds |-> {[host |-> workDir, container |-> <<"workspace">>]},
     NetworkMode |-> "bridge", AutoRemove |-> TRUE,
     Memory |-> 512 * 1024 * 1024, PidsLimit |-> 128, CpuQuota |-> 50000]

\* HostConfig of CodeExecutionTool.execute
CodeExecutionHostConfig(workDir) ==
    [Binds |-> {[host |-> workDir, container |-> <<"workspace">>]},
     NetworkMode |-> "none", AutoRemove |-> TRUE,
     Memory |-> 512 * 1024 * 1024, PidsLimit |-> 128, CpuQuota |-> 50000]

\* HostConfig of DocumentConverterTool.execute
DocumentConverterHostConfig(workDir) ==
    [Binds |-> {[host |-> workDir, container |-> <<"workspace">>]},
     NetworkMode |-> "none", AutoRemove |-> TRUE,
     Memory |-> 512 * 1024 * 1024, PidsLimit |-> 128, CpuQuota |-> 50000]

CreateContainer(j, ok) ==
    /\ jobs[j].pc = "createContainer"
    /\ IF ok
       THEN jobs' = [jobs EXCEPT ![j].pc = "attach",
                         ![j].container = "created",
                         ![j].hostConfig =
                             IF jobs[j].tool = "document_converter"
                             THEN {DocumentConverterHostConfig(WorkDirOf(j))}
                             ELSE {CodeExecutionHostConfig(WorkDirOf(j))}]
       ELSE ExecutionFailed(j, "createContainer failed")
    /\ DemuxIdle

\* container.attach resolves and the data listener is registered
Attach(j, ok) ==
    /\ jobs[j].pc = "attach"
    /\ IF ok
       THEN jobs' = [jobs EXCEPT ![j].pc = "start",
                                 ![j].attached = TRUE]
       ELSE ExecutionFailed(j, "attach failed")
    /\ DemuxIdle

\* container.start resolves.  The document converter races container.wait()
\* against setTimeout(timeout * 1000); code execution awaits container.wait().
\* deadline is the moment `timeout` seconds after the start, whether or not
\* a timer watches it.
StartDocumentConverter(j) ==
    jobs' = [jobs EXCEPT ![j].pc = "racing",
                         ![j].container = "running",
                         ![j].deadline = "pending",
                         ![j].timer = "armed"]

StartCodeExecution(j) ==
    jobs' = [jobs EXCEPT ![j].pc = "waiting",
                         ![j].container = "running",
                         ![j].deadline = "pending"]

Start(j, ok) ==
    /\ jobs[j].pc = "start"
    /\ IF ok
       THEN IF jobs[j].tool = "document_converter"
            THEN StartDocumentConverter(j)
            ELSE StartCodeExecution(j)
       ELSE ExecutionFailed(j, "start failed")
    /\ DemuxIdle

\* WaitResolve with every non-zero status code reported as 1
WaitResolveNormalized(j) ==
    /\ jobs[j].pc \in {"waiting", "racing"}
    /\ jobs[j].container \in {"exited", "removed"}
    /\ jobs' = [jobs EXCEPT ![j].pc = "writeStdout",
                    ![j].exitCode = IF jobs[j].statusCode = {0} THEN {0} ELSE {1},
                    ![j].outBuf = Utf8RoundTrip(Concat(jobs[j].stdoutChunks))]
    /\ DemuxIdle

\* container.wait() resolves with the status code: exitCode is set and the
\* stdout accumulator is concatenated and handed to writeWorkspaceFile
WaitResolve(j) ==
    /\ jobs[j].pc \in {"waiting", "racing"}
    /\ jobs[j].container \in {"exited", "removed"}
    /\ jobs' = [jobs EXCEPT ![j].pc = "writeStdout",
                    ![j].exitCode = jobs[j].statusCode,
                    ![j].outBuf = Utf8RoundTrip(Concat(jobs[j].stdoutChunks))]
    /\ DemuxIdle

\* WaitReject with the output collected so far written before the rethrow
WaitRejectFlushes(j) ==
    /\ jobs[j].pc \in {"waiting", "racing"}
    /\ jobs' = [jobs EXCEPT ![j].pc = "responded",
                    ![j].files = writeWorkspaceFile(@, <<"stdout">>,
                                     Utf8RoundTrip(Concat(jobs[j].stdoutChunks))),
                    ![j].response =
                        ErrorResponse(500, "Tool execution failed", "wait failed")]
    /\ DemuxIdle

\* container.wait() rejects (engine error): rethrown by the handler
WaitReject(j) ==
    /\ jobs[j].pc \in {"waiting", "racing"}
    /\ ExecutionFailed(j, "wait failed")
    /\ DemuxIdle

\* TimerFire with a callback that kills whatever the state of the race
TimerFireAlwaysKills(j, late) ==
    /\ jobs[j].timer = "armed"
    /\ jobs[j].deadline = "passed"
    /\ IF jobs[j].pc = "racing"
       THEN jobs' = [jobs EXCEPT ![j].pc = "killing",
                         ![j].timer = "fired",
                         ![j].timedOut = TRUE,
                         ![j].exitCode = {TimeoutSentinel},
                         ![j].elapsedTime = jobs[j].timeout + late,
                         ![j].killCalls = jobs[j].killCalls + 1]
       ELSE jobs' = [jobs EXCEPT ![j].timer = "fired",
                         ![j].killCalls = jobs[j].killCalls + 1,
                         ![j].container =
                             IF @ = "running" THEN "exited" ELSE @,
                         ![j].statusCode =
                             IF jobs[j].container = "running"
                             THEN KilledStatus ELSE @]
    /\ DemuxIdle

\* the setTimeout callback, not before the deadline and `late` seconds after
\* it: reject(new Error("TIMEOUT")).  When the race is still open the catch
\* block runs up to await container.kill(); a race that is already settled
\* ignores the rejection.  startTime was taken before the timer was armed, so
\* (Date.now() - startTime) / 1000 is the timeout plus the lateness.
TimerFire(j, late) ==
    /\ jobs[j].timer = "armed"
    /\ jobs[j].deadline = "passed"
    /\ IF jobs[j].pc = "racing"
       THEN jobs' = [jobs EXCEPT ![j].pc = "killing",
                         ![j].timer = "fired",
                         ![j].timedOut = TRUE,
                         ![j].exitCode = {TimeoutSentinel},
                         ![j].elapsedTime = jobs[j].timeout + late,
                         ![j].killCalls = jobs[j].killCalls + 1]
       ELSE jobs' = [jobs EXCEPT ![j].timer = "fired"]
    /\ DemuxIdle

\* container.kill() resolves: the container has stopped
KillResolved(j) ==
    jobs' = [jobs EXCEPT ![j].pc = "writeStdout",
                 ![j].container = "exited",
                 ![j].statusCode = KilledStatus,
                 ![j].stderrChunks =
                     Append(@, TimeoutMessage(jobs[j].elapsedTime,
                                              jobs[j].timeout)),
                 ![j].outBuf = Utf8RoundTrip(Concat(jobs[j].stdoutChunks))]

\* KillRejected with the kill error thrown out of the handler
KillRejectedRethrows(j) ==
    jobs' = [jobs EXCEPT ![j].pc = "responded",
                 ![j].killFailed = TRUE,
                 ![j].response =
                     ErrorResponse(500, "Tool execution failed", "kill failed")]

\* container.kill() rejects: catch (killError) logs it and goes on
KillRejected(j) ==
    jobs' = [jobs EXCEPT ![j].pc = "writeStdout",
                 ![j].killFailed = TRUE,
                 ![j].stderrChunks =
                     Append(@, TimeoutMessage(jobs[j].elapsedTime,
                                              jobs[j].timeout)),
                 ![j].outBuf = Utf8RoundTrip(Concat(jobs[j].stdoutChunks))]

\* KillReturn with the timeout message pushed only when the kill succeeded
KillReturnMessageOnSuccess(j, ok) ==
    /\ jobs[j].pc = "killing"
    /\ ok => jobs[j].container = "running"
    /\ jobs' = [jobs EXCEPT ![j].pc = "writeStdout",
                    ![j].container = IF ok THEN "exited" ELSE @,
                    ![j].statusCode = IF ok THEN KilledStatus ELSE @,
                    ![j].killFailed = ~ok,
                    ![j].stderrChunks =
                        IF ok THEN Append(@, TimeoutMessage(jobs[j].elapsedTime,
                                                            jobs[j].timeout))
                              ELSE @,
                    ![j].outBuf = Utf8RoundTrip(Concat(jobs[j].stdoutChunks))]
    /\ DemuxIdle

\* container.kill() settles.  Either way the timeout message is pushed and
\* stdout is written next.
KillReturn(j, ok) ==
    /\ jobs[j].pc = "killing"
    /\ ok => jobs[j].container = "running"
    /\ IF ok THEN KillResolved(j) ELSE KillRejected(j)
    /\ DemuxIdle

WriteStdout(j, ok) ==
    /\ jobs[j].pc = "writeStdout"
    /\ IF ok
       THEN jobs' = [jobs EXCEPT ![j].pc = "writeStderr",
                         ![j].files = writeWorkspaceFile(jobs[j].files,
                                          <<"stdout">>, jobs[j].outBuf),
                         ![j].outBuf =
                             Utf8RoundTrip(Concat(jobs[j].stderrChunks))]
       ELSE ExecutionFailed(j, "write stdout failed")
    /\ DemuxIdle

\* the handler returns {exitCode, inputFiles}; the dispatcher lists the files
WriteStderr(j, ok) ==
    /\ jobs[j].pc = "writeStderr"
    /\ IF ok
       THEN jobs' = [jobs EXCEPT ![j].pc = "listFiles",
                         ![j].files = writeWorkspaceFile(jobs[j].files,
                                          <<"stderr">>, jobs[j].outBuf),
                         ![j].outBuf = <<>>]
       ELSE ExecutionFailed(j, "write stderr failed")
    /\ DemuxIdle

\* return { exitCode, inputFiles }: the optional stdout and stderr of a
\* ToolResult are not set by either handler
ToolResult(j) ==
    [exitCode |-> jobs[j].exitCode, inputFiles |-> {jobs[j].filename},
     stdout |-> {}, stderr |-> {}]

\* listWorkspaceFiles resolves, the artifacts are categorized and the
\* response is sent
ListFiles(j) ==
    /\ jobs[j].pc = "listFiles"
    /\ LET result == ToolResult(j)
           allFiles == listWorkspaceFiles(jobs[j].wsExists, jobs[j].files)
           artifacts == categorizeArtifacts(allFiles, result.inputFiles)
       IN  jobs' = [jobs EXCEPT ![j].pc = "responded",
                        ![j].response =
                            [status |-> 200, error |-> "", details |-> "",
                             availableTools |-> {},
                             exitCode |-> result.exitCode,
                             inputs |-> artifacts.inputs,
                             outputs |-> artifacts.outputs,
                             stdout |-> {out \in result.stdout : out # <<>>},
                             stderr |-> {err \in result.stderr : err # <<>>}]]
    /\ DemuxIdle

(***************************************************************************)
(* Container runtime, attach stream, clock                                 *)
(***************************************************************************)
ContainerChunks == {EncodeFrame(1, <<97>>), EncodeFrame(2, <<98>>)}

\* the payload of a whole frame, when the frame is of the given stream type
FramePayload(chunk, type) ==
    IF chunk[1] = type THEN SubSeq(chunk, HeaderSize + 1, Len(chunk)) ELSE <<>>

\* the process writes to its stdout or stderr and the engine puts the bytes
\* on the attach stream as one frame; wroteOut and wroteErr record what the
\* process wrote
ContainerEmit(j, chunk) ==
    /\ jobs[j].container = "running"
    /\ jobs[j].emitted < MaxEmit
    /\ jobs' = [jobs EXCEPT ![j].stream = Append(@, chunk),
                            ![j].emitted = @ + 1,
                            ![j].wroteOut = @ \o FramePayload(chunk, 1),
                            ![j].wroteErr = @ \o FramePayload(chunk, 2)]
    /\ DemuxIdle

\* the process in the container creates a file in the bind-mounted workspace
ContainerWrite(j, path) ==
    /\ jobs[j].container = "running"
    /\ path \notin DOMAIN jobs[j].files
    /\ jobs' = [jobs EXCEPT ![j].files = writeWorkspaceFile(@, path, <<>>)]
    /\ DemuxIdle

ContainerExit(j, code) ==
    /\ jobs[j].container = "running"
    /\ jobs' = [jobs EXCEPT ![j].container = "exited",
                            ![j].statusCode = {code}]
    /\ DemuxIdle

\* HostConfig.AutoRemove: the engine removes a container that has exited
AutoRemove(j) ==
    /\ jobs[j].container = "exited"
    /\ jobs' = [jobs EXCEPT ![j].container = "removed"]
    /\ DemuxIdle

\* stream.on("data", chunk => demuxDockerStream(chunk, ...))
StreamData(j) ==
    /\ jobs[j].attached
    /\ jobs[j].stream # <<>>
    /\ LET r == demuxDockerStream(Head(jobs[j].stream),
                    jobs[j].stdoutChunks, jobs[j].stderrChunks)
       IN  jobs' = [jobs EXCEPT ![j].stream = Tail(@),
                                ![j].stdoutChunks = r[1],
                                ![j].stderrChunks = r[2]]
    /\ DemuxIdle

\* `timeout` seconds have gone by since the container was started
DeadlinePass(j) ==
    /\ jobs[j].deadline = "pending"
    /\ jobs' = [jobs EXCEPT ![j].deadline = "passed",
                            ![j].runningAtDeadline =
                                (jobs[j].container = "running")]
    /\ DemuxIdle

HandlerStep(j) ==
    \/ \E ok \in BOOLEAN : CreateWorkspace(j, ok)
    \/ \E ok \in BOOLEAN : WriteInput(j, ok)
    \/ \E ok \in BOOLEAN : CreateContainer(j, ok)
    \/ \E ok \in BOOLEAN : Attach(j, ok)
    \/ \E ok \in BOOLEAN : Start(j, ok)
    \/ \E ok \in BOOLEAN : KillReturn(j, ok)
    \/ \E ok \in BOOLEAN : WriteStdout(j, ok)
    \/ \E ok \in BOOLEAN : WriteStderr(j, ok)
    \/ ListFiles(j)

Next ==
    \/ \E j \in Jobs, tool \in RequestTools, sessionOk \in BOOLEAN,
          tmo \in RequestTimeouts, shape \in RequestShapes,
          fname \in Filenames :
            Receive(j, tool, sessionOk, tmo, shape, fname)
    \/ \E j \in Jobs : HandlerStep(j)
    \/ \E j \in Jobs : WaitResolve(j)
    \/ \E j \in Jobs : WaitReject(j)
    \/ \E j \in Jobs, late \in 0..MaxLate : TimerFire(j, late)
    \/ \E j \in Jobs : DeadlinePass(j)
    \/ \E j \in Jobs, chunk \in ContainerChunks : ContainerEmit(j, chunk)
    \/ \E j \in Jobs, path \in ContainerFiles : ContainerWrite(j, path)
    \/ \E j \in Jobs, code \in StatusCodes : ContainerExit(j, code)
    \/ \E j \in Jobs : AutoRemove(j)
    \/ \E j \in Jobs : StreamData(j)

Spec == Init /\ [][Next]_vars

\* The event loop runs every continuation whose promise has settled, timers
\* fire once due, the engine delivers data, results and removals.  Nothing
\* makes the command in the container exit.
Fairness ==
    \A j \in Jobs :
        /\ WF_vars(HandlerStep(j))
        /\ WF_vars(WaitResolve(j))
        /\ WF_vars(DeadlinePass(j))
        /\ WF_vars(\E late \in 0..MaxLate : TimerFire(j, late))
        /\ WF_vars(StreamData(j))
        /\ WF_vars(AutoRemove(j))

LiveSpec == Init /\ [][Next]_vars /\ Fairness

(***************************************************************************)
(* SpecDemux: a frame stream delivered in chunks cut at any byte offset    *)
(***************************************************************************)
Payloads == UNION {[1..n -> PayloadBytes] : n \in 0..MaxPayload}

Frames == [type : StreamTypes, payload : Payloads]

FrameSeqs == UNION {[1..n -> Frames] : n \in 0..MaxFrames}

InitDemux ==
    /\ jobs = [j \in Jobs |-> InitJob]
    /\ \E frames \in FrameSeqs : dmWire = EncodeFrames(frames)
    /\ dmRest = dmWire
    /\ dmOut = <<>>
    /\ dmErr = <<>>
    /\ dispatched = <<>>
    /\ disk = {}
    /\ wsFile = {}
    /\ wsLast = {}
    /\ handlers = <<>>
    /\ toolsReply = {}
    /\ runStdout = <<>>
    /\ agentTools = {}
    /\ served = {}
    /\ regLog = InitRegLog
    /\ bus = InitBusState
    /\ sse = InitSseState
    /\ proc = InitProcState

\* the next n bytes of the stream arrive as one "data" event.  The handler
\* of the tools demultiplexes the chunk into dmOut and dmErr; the listener
\* of the legacy POST /run pushes chunk.toString() to its stdoutChunks
\* (runStdout is their join) and nothing to its stderrChunks.
DeliverChunk(n) ==
    /\ n <= Len(dmRest)
    /\ LET r == demuxDockerStream(SubSeq(dmRest, 1, n), dmOut, dmErr)
       IN  /\ dmOut' = r[1]
           /\ dmErr' = r[2]
    /\ dmRest' = SubSeq(dmRest, n + 1, Len(dmRest))
    /\ runStdout' = runStdout \o Utf8RoundTrip(SubSeq(dmRest, 1, n))
    /\ UNCHANGED <<jobs, dmWire, dispatched, disk, wsFile, wsLast,
                   handlers, toolsReply, agentTools, served, regLog,
                   bus, sse, proc>>

NextDemux == \E n \in 1..(MaxFrames * (HeaderSize + MaxPayload)) : DeliverChunk(n)

SpecDemux == InitDemux /\ [][NextDemux]_vars

(***************************************************************************)
(* SpecStore: job ids, workspace directories and the paths of the files    *)
(* the supervisor writes, for several dispatched requests                  *)
(***************************************************************************)
\* "s1", "s2" and "s1/x", as path segments
SessionIds == {<<"s1">>, <<"s2">>, <<"s1", "x">>}

\* values nanoid(6) can return
NanoIds == {"V1StGX", "Uakgb_"}

StoreFilenames == {<<"a.py">>, <<"sub", "a.py">>, <<"..", "a.py">>}

\* getBaseStorageDir
StorageRoot == <<"home", ".aa-storage">>

\* path.normalize on the segments of a path: "." is dropped and ".." removes
\* the segment before it
RECURSIVE Normalize(_, _)
Normalize(parts, acc) ==
    IF parts = <<>> THEN acc
    ELSE IF Head(parts) = "." THEN Normalize(Tail(parts), acc)
    ELSE IF Head(parts) = ".."
    THEN Normalize(Tail(parts),
                   IF acc = <<>> THEN acc ELSE SubSeq(acc, 1, Len(acc) - 1))
    ELSE Normalize(Tail(parts), Append(acc, Head(parts)))

\* path.join(base, rel)
PathJoin(base, rel) == Normalize(base \o rel, <<>>)

getSessionDir(sessionId) == PathJoin(StorageRoot, sessionId)

\* `job-${jobId}`
JobDirName(jobId) == IF jobId = "V1StGX" THEN "job-V1StGX" ELSE "job-Uakgb_"

getJobWorkDir(sessionId, jobId) ==
    PathJoin(getSessionDir(sessionId), <<JobDirName(jobId)>>)

getArtifactPath(sessionId, jobId, filename) ==
    PathJoin(getJobWorkDir(sessionId, jobId), filename)

\* the path of `${protocol}://${host}/artifacts/${sessionId}/${jobId}/${filename}`,
\* as the segments between its slashes
generateArtifactUrl(sessionId, jobId, filename) ==
    <<"artifacts">> \o sessionId \o <<jobId>> \o filename

\* the route /artifacts/:sessionId/:jobId/:filename: each parameter matches
\* one segment, a path of any other length matches no route
ArtifactRouteParams(url) ==
    IF Len(url) = 4 /\ url[1] = "artifacts"
    THEN {[sessionId |-> <<url[2]>>, jobId |-> url[3], filename |-> <<url[4]>>]}
    ELSE {}

InitStore ==
    /\ jobs = [j \in Jobs |-> InitJob]
    /\ dmWire = <<>>
    /\ dmRest = <<>>
    /\ dmOut = <<>>
    /\ dmErr = <<>>
    /\ dispatched = <<>>
    /\ disk = {}
    /\ wsFile = {}
    /\ wsLast = {}
    /\ handlers = <<>>
    /\ toolsReply = {}
    /\ runStdout = <<>>
    /\ agentTools = {}
    /\ served = {}
    /\ regLog = InitRegLog
    /\ bus = InitBusState
    /\ sse = InitSseState
    /\ proc = InitProcState

StoreIdle ==
    UNCHANGED <<jobs, dmWire, dmRest, dmOut, dmErr, wsFile, wsLast,
                handlers, toolsReply, runStdout, agentTools, regLog,
                bus, sse, proc>>

\* a valid request is dispatched: id = nanoid(6) and createWorkspace, whose
\* mkdir(workDir, {recursive: true}) also succeeds on an existing directory
StoreDispatch(sessionId, id, filename) ==
    /\ Len(dispatched) < MaxDispatch
    /\ dispatched' = Append(dispatched,
                         [sessionId |-> sessionId, id |-> id,
                          filename |-> filename,
                          workDir |-> getJobWorkDir(sessionId, id),
                          pc |-> "writeInput"])
    /\ UNCHANGED <<disk, served>>
    /\ StoreIdle

\* the handler's next writeWorkspaceFile(workDir, name, content): the input
\* file, then stdout, then stderr
StoreWriteFile(n) ==
    /\ n \in DOMAIN dispatched
    /\ dispatched[n].pc # "done"
    /\ LET job == dispatched[n]
           name == IF job.pc = "writeInput" THEN job.filename
                   ELSE IF job.pc = "writeStdout" THEN <<"stdout">>
                   ELSE <<"stderr">>
           nextPc == IF job.pc = "writeInput" THEN "writeStdout"
                     ELSE IF job.pc = "writeStdout" THEN "writeStderr"
                     ELSE "done"
       IN  /\ disk' = disk \cup {[path |-> PathJoin(job.workDir, name),
                                   job |-> n]}
           /\ dispatched' = [dispatched EXCEPT ![n].pc = nextPc]
    /\ UNCHANGED served
    /\ StoreIdle

\* values of the route parameters of GET /artifacts/:sessionId/:jobId/:filename
\* as the handler reads them from request.params: each is the percent-decoded
\* text of one segment of the URL, so that %2F puts a slash, and with it
\* further path segments, into a parameter
ParamSessionIds == {<<"s1">>, <<"s2">>}

ParamFilenames ==
    {<<"a.py">>, <<"stdout">>, <<"..", "a.py">>, <<"..", "job-Uakgb_", "stdout">>}

\* GET /artifacts/:sessionId/:jobId/:filename: the file at getArtifactPath is
\* sent when it exists, 404 otherwise.  served holds the last reply that sent
\* a file.
GetArtifact(sessionId, jobId, filename) ==
    /\ LET artifactPath == getArtifactPath(sessionId, jobId, filename)
           exists == \E w \in disk : w.path = artifactPath
       IN  served' = IF exists
                     THEN {[sessionId |-> sessionId, jobId |-> jobId,
                            filename |-> filename, path |-> artifactPath]}
                     ELSE {}
    /\ UNCHANGED <<dispatched, disk>>
    /\ StoreIdle

NextStore ==
    \/ \E sessionId \in SessionIds, id \in NanoIds, filename \in StoreFilenames :
           StoreDispatch(sessionId, id, filename)
    \/ \E n \in 1..MaxDispatch : StoreWriteFile(n)
    \/ \E sessionId \in ParamSessionIds, jobId \in NanoIds,
          filename \in ParamFilenames :
           GetArtifact(sessionId, jobId, filename)

SpecStore == InitStore /\ [][NextStore]_vars

(***************************************************************************)
(* SpecFile: writeWorkspaceFile called again and again on one file of one  *)
(* workspace, with text or binary content                                  *)
(***************************************************************************)
ByteValues == {0, 128, 255}

\* code points of the characters of a string: "a" and "e" with acute accent
TextChars == {97, 233}

BinaryContents == UNION {[1..n -> ByteValues] : n \in 0..MaxContent}

TextContents == UNION {[1..n -> TextChars] : n \in 0..2}

Contents ==
    [kind : {"binary"}, data : BinaryContents]
        \cup [kind : {"text"}, data : TextContents]

\* the bytes of a string of code points below 2048 in UTF-8
RECURSIVE Utf8Encode(_)
Utf8Encode(str) ==
    IF str = <<>> THEN <<>>
    ELSE LET c == Head(str) IN
         (IF c < 128 THEN <<c>> ELSE <<192 + (c \div 64), 128 + (c % 64)>>)
             \o Utf8Encode(Tail(str))

\* readFile(path, "utf-8") on well-formed one- and two-byte sequences
RECURSIVE Utf8Decode(_)
Utf8Decode(bytes) ==
    IF bytes = <<>> THEN <<>>
    ELSE IF Head(bytes) < 128 \/ Len(bytes) < 2
    THEN <<Head(bytes)>> \o Utf8Decode(Tail(bytes))
    ELSE <<(Head(bytes) - 192) * 64 + (bytes[2] - 128)>>
             \o Utf8Decode(SubSeq(bytes, 3, Len(bytes)))

\* the bytes Bun.write puts into the file: a string is encoded as UTF-8, a
\* Buffer is written as it is
ContentBytes(content) ==
    IF content.kind = "text" THEN Utf8Encode(content.data) ELSE content.data

\* data written at offset 0 over the bytes a file holds
WriteAt(existing, data) ==
    data \o SubSeq(existing, Len(data) + 1, Len(existing))

\* the bytes of a file, none for a file that does not exist
FileBytes(file) == IF file = {} THEN <<>> ELSE CHOOSE bytes \in file : TRUE

\* BunWrite without truncation of the existing file
BunWriteInPlace(existing, content) ==
    WriteAt(FileBytes(existing), ContentBytes(content))

\* Bun.write(Bun.file(filePath), content): the file is created or truncated
\* and the bytes are written
BunWrite(existing, content) ==
    WriteAt(<<>>, ContentBytes(content))

InitFile ==
    /\ jobs = [j \in Jobs |-> InitJob]
    /\ dmWire = <<>>
    /\ dmRest = <<>>
    /\ dmOut = <<>>
    /\ dmErr = <<>>
    /\ dispatched = <<>>
    /\ disk = {}
    /\ wsFile = {}
    /\ wsLast = {}
    /\ handlers = <<>>
    /\ toolsReply = {}
    /\ runStdout = <<>>
    /\ agentTools = {}
    /\ served = {}
    /\ regLog = InitRegLog
    /\ bus = InitBusState
    /\ sse = InitSseState
    /\ proc = InitProcState

\* await writeWorkspaceFile(workDir, filename, content)
WriteFile(content) ==
    /\ wsFile' = {BunWrite(wsFile, content)}
    /\ wsLast' = {content}
    /\ UNCHANGED <<jobs, dmWire, dmRest, dmOut, dmErr, dispatched, disk,
                   handlers, toolsReply, runStdout, agentTools, served,
                   regLog, bus, sse, proc>>

NextFile == \E content \in Contents : WriteFile(content)

SpecFile == InitFile /\ [][NextFile]_vars

(***************************************************************************)
(* SpecRegistry: the ToolRegistry, handlers being registered, GET /tools   *)
(***************************************************************************)
ToolTypes == {"code_execution", "document_converter", "web_search"}

\* tool handlers: toolType, description and inputSchema of a ToolHandler
ToolHandlers ==
    [toolType : ToolTypes, description : {"d1", "d2"},
     inputSchema : {"code", "doc"}]

\* z.toJSONSchema(inputSchema).properties
JsonSchemaProperties(inputSchema) ==
    IF inputSchema = "code"
    THEN {"language", "code", "filename"}
    ELSE {"fileContent", "filename", "conversionScript"}

\* Map.prototype.get on a Map kept as the sequence of its entries
MapGet(entries, key) ==
    {entries[i].value : i \in {k \in DOMAIN entries : entries[k].key = key}}

\* register with every registration kept as an entry of its own
registerAppend(entries, handler) ==
    Append(entries, [key |-> handler.toolType, value |-> handler])

\* this.handlers.set(handler.toolType, handler): the value of an existing
\* key is replaced where it stands, a new key is added at the end
register(entries, handler) ==
    IF \E i \in DOMAIN entries : entries[i].key = handler.toolType
    THEN [i \in DOMAIN entries |->
             IF entries[i].key = handler.toolType
             THEN [key |-> handler.toolType, value |-> handler]
             ELSE entries[i]]
    ELSE Append(entries, [key |-> handler.toolType, value |-> handler])

\* toolRegistry.get(toolType): the handler, none when undefined
get(entries, toolType) == MapGet(entries, toolType)

\* Array.from(this.handlers.values()).map(...)
getTools(entries) ==
    [i \in DOMAIN entries |->
        [toolType |-> entries[i].value.toolType,
         description |-> entries[i].value.description,
         inputSchema |-> entries[i].value.inputSchema]]

\* the reply of GET /tools: reduce over getTools(), a later element
\* overwrites the entry of an earlier one with the same toolType
GetToolsReply(entries) ==
    LET tools == getTools(entries)
        LastOf(t) == CHOOSE i \in DOMAIN tools :
                         /\ tools[i].toolType = t
                         /\ \A k \in DOMAIN tools :
                                tools[k].toolType = t => k <= i
    IN  [t \in {tools[i].toolType : i \in DOMAIN tools} |->
            [description |-> tools[LastOf(t)].description,
             parameters |-> JsonSchemaProperties(tools[LastOf(t)].inputSchema)]]

InitRegistry ==
    /\ jobs = [j \in Jobs |-> InitJob]
    /\ dmWire = <<>>
    /\ dmRest = <<>>
    /\ dmOut = <<>>
    /\ dmErr = <<>>
    /\ dispatched = <<>>
    /\ disk = {}
    /\ wsFile = {}
    /\ wsLast = {}
    /\ handlers = <<>>
    /\ toolsReply = {}
    /\ runStdout = <<>>
    /\ agentTools = {}
    /\ served = {}
    /\ regLog = InitRegLog
    /\ bus = InitBusState
    /\ sse = InitSseState
    /\ proc = InitProcState

RegistryIdle ==
    UNCHANGED <<jobs, dmWire, dmRest, dmOut, dmErr, dispatched, disk,
                wsFile, wsLast, runStdout, served, bus, sse, proc>>

\* this.handlers.has(toolType)
has(entries, toolType) == \E i \in DOMAIN entries : entries[i].key = toolType

\* Array.from(this.handlers.keys())
getToolTypes(entries) == [i \in DOMAIN entries |-> entries[i].key]

\* the record of the register calls after one more call
Registered(log, handler) ==
    LET known == handler.toolType \in DOMAIN log.last
    IN  [last |-> [t \in DOMAIN log.last \cup {handler.toolType} |->
                      IF t = handler.toolType THEN handler ELSE log.last[t]],
         order |-> IF known THEN log.order
                   ELSE Append(log.order, handler.toolType),
         replaced |-> log.replaced \/ known]

\* register that leaves the handler of a tool type already registered
RegisterKeepFirst(handler) ==
    /\ handlers' = IF has(handlers, handler.toolType) THEN handlers
                   ELSE register(handlers, handler)
    /\ regLog' = Registered(regLog, handler)
    /\ UNCHANGED <<toolsReply, agentTools>>
    /\ RegistryIdle

\* toolRegistry.register(handler)
Register(handler) ==
    /\ handlers' = register(handlers, handler)
    /\ regLog' = Registered(regLog, handler)
    /\ UNCHANGED <<toolsReply, agentTools>>
    /\ RegistryIdle

\* GET /tools is served
GetTools ==
    /\ toolsReply' = {GetToolsReply(handlers)}
    /\ UNCHANGED <<handlers, agentTools, regLog>>
    /\ RegistryIdle

\* the keys of TOOL_SCHEMAS in the agent
ToolSchemas == {"code_execution", "document_converter"}

\* fetchAvailableTools: data.tools of the parsed reply, undefined (none) when
\* the object has no property of that name
fetchAvailableTools(reply) ==
    IF "tools" \in DOMAIN reply THEN {reply["tools"]} ELSE {}

\* createTools of the agent on the reply of GET /tools.  `for (const tool of
\* availableTools)` throws a TypeError on a value that is not an array;
\* over an array it keeps the tool types that have a schema.  published
\* records the tool types of the reply.
createTools(reply) ==
    LET availableTools == fetchAvailableTools(reply)
        isArray == \E tools \in availableTools : DOMAIN tools = 1..Len(tools)
    IN  IF ~isArray
        THEN [status |-> "TypeError", tools |-> {}, published |-> DOMAIN reply]
        ELSE LET tools == CHOOSE tools \in availableTools : TRUE
             IN  [status |-> "ok",
                  tools |-> {tools[i].toolType : i \in DOMAIN tools}
                                \cap ToolSchemas,
                  published |-> DOMAIN reply]

\* the agent starts and builds its tools from the supervisor
CreateTools ==
    /\ agentTools' = {createTools(GetToolsReply(handlers))}
    /\ UNCHANGED <<handlers, toolsReply, regLog>>
    /\ RegistryIdle

NextRegistry ==
    \/ \E handler \in ToolHandlers : Register(handler)
    \/ GetTools
    \/ CreateTools

SpecRegistry == InitRegistry /\ [][NextRegistry]_vars

(***************************************************************************)
(* SpecBus: the event bus of the web package: subscribe, subscribeAll,     *)
(* unsubscribe functions and publish                                       *)
(***************************************************************************)
BusTypes == {"chat.message", "session.idle"}

BusKeys == BusTypes \cup {"*"}

\* callbacks, by what they do when invoked: "plain" returns undefined;
\* "unsubSelf" is async and calls the unsubscribe function of the
\* subscription it is invoked for; "unsubPrev" calls the unsubscribe function
\* of the subscription created just before its own
Callbacks == {"plain", "unsubSelf", "unsubPrev"}

\* the callback returns a promise
ReturnsPromise(callback) == callback = "unsubSelf"

BusIdle ==
    UNCHANGED <<jobs, dmWire, dmRest, dmOut, dmErr, dispatched, disk, wsFile,
                wsLast, handlers, toolsReply, runStdout, agentTools, served,
                regLog, sse, proc>>

\* match.indexOf(callback): the first position holding the callback, 0 for -1
IndexOf(match, callback) ==
    IF \E i \in DOMAIN match : match[i].callback = callback
    THEN CHOOSE i \in DOMAIN match :
             /\ match[i].callback = callback
             /\ \A k \in DOMAIN match : match[k].callback = callback => i <= k
    ELSE 0

\* match.splice(index, 1)
Splice(match, index) ==
    SubSeq(match, 1, index - 1) \o SubSeq(match, index + 1, Len(match))

\* raw(type, callback): the callback is pushed to the list of the key.  The
\* entry also carries the number of the raw call that made it, which the
\* code does not look at.
raw(subscriptions, type, callback, id) ==
    [subscriptions EXCEPT
        ![type] = Append(@, [callback |-> callback, id |-> id])]

\* the function returned by the raw call number id
unsubscribe(subscriptions, created, id) ==
    LET type == created[id].key
        match == subscriptions[type]
        index == IndexOf(match, created[id].callback)
    IN  IF index = 0 THEN subscriptions
        ELSE [subscriptions EXCEPT ![type] = Splice(match, index)]

\* the unsubscribe functions a callback calls when invoked for an entry
CallbackUnsubscribes(entry) ==
    IF entry.callback = "unsubSelf" THEN {entry.id}
    ELSE IF entry.callback = "unsubPrev" /\ entry.id > 1 THEN {entry.id - 1}
    ELSE {}

\* `for (const sub of match ?? [])` from position i on: the array iterator
\* reads match[i] of the list as it is now and ends when i is past its
\* length; sub(payload) runs the callback, which may splice the list
RECURSIVE DeliverTo(_, _, _, _)
DeliverTo(key, i, st, created) ==
    IF i > Len(st.subscriptions[key]) THEN st
    ELSE LET sub == st.subscriptions[key][i]
             calls == CallbackUnsubscribes(sub)
             after == IF calls = {} THEN st.subscriptions
                      ELSE unsubscribe(st.subscriptions, created,
                                       CHOOSE id \in calls : TRUE)
         IN  DeliverTo(key, i + 1,
                       [subscriptions |-> after,
                        log |-> Append(st.log, [id |-> sub.id, key |-> key,
                                                payload |-> st.payload]),
                        payload |-> st.payload,
                        removed |-> st.removed \cup calls],
                       created)

IdsOf(match) == [i \in DOMAIN match |-> match[i].id]

\* Bus.subscribe(def, callback) and, for key "*", Bus.subscribeAll(callback)
Subscribe(key, callback) ==
    /\ Len(bus.created) < MaxSubs
    /\ bus' = [bus EXCEPT
                  !.subscriptions = raw(bus.subscriptions, key, callback,
                                        Len(bus.created) + 1),
                  !.created = Append(@, [key |-> key, callback |-> callback])]
    /\ BusIdle

\* the unsubscribe function of the raw call number id is called
Unsubscribe(id) ==
    /\ id \in DOMAIN bus.created
    /\ bus' = [bus EXCEPT
                  !.subscriptions = unsubscribe(bus.subscriptions,
                                                bus.created, id),
                  !.called = @ \cup {id}]
    /\ BusIdle

\* Bus.publish(def, properties) up to its await: the callbacks of def.type,
\* then those of "*", are invoked; the promises they return are pending
Publish(type, properties) ==
    /\ ~bus.publish.awaiting
    /\ LET payload == [type |-> type, properties |-> properties]
           st0 == [subscriptions |-> bus.subscriptions, log |-> <<>>,
                   removed |-> {}, payload |-> payload]
           st1 == DeliverTo(type, 1, st0, bus.created)
           st2 == DeliverTo("*", 1, st1, bus.created)
       IN  bus' = [bus EXCEPT
                     !.subscriptions = st2.subscriptions,
                     !.called = @ \cup st2.removed,
                     !.publish =
                         [awaiting |-> TRUE, type |-> type,
                          properties |-> properties,
                          startType |-> IdsOf(bus.subscriptions[type]),
                          startAll |-> IdsOf(bus.subscriptions["*"]),
                          removed |-> st2.removed,
                          log |-> st2.log,
                          pending |-> {i \in DOMAIN st2.log :
                              ReturnsPromise(
                                  bus.created[st2.log[i].id].callback)},
                          resolved |-> FALSE]]
    /\ BusIdle

\* the promise returned by the i-th invocation resolves
SubscriberResolves(i) ==
    /\ i \in bus.publish.pending
    /\ bus' = [bus EXCEPT !.publish.pending = @ \ {i}]
    /\ BusIdle

\* await Promise.all(pending) is over and the promise of publish resolves
PublishResolves ==
    /\ bus.publish.awaiting
    /\ bus.publish.pending = {}
    /\ bus' = [bus EXCEPT !.publish.awaiting = FALSE,
                          !.publish.resolved = TRUE]
    /\ BusIdle

NextBus ==
    \/ \E key \in BusKeys, callback \in Callbacks : Subscribe(key, callback)
    \/ \E id \in 1..MaxSubs : Unsubscribe(id)
    \/ \E type \in BusTypes : Publish(type, "props")
    \/ \E i \in 1..MaxSubs : SubscriberResolves(i)
    \/ PublishResolves

SpecBus == Init /\ [][NextBus]_vars

(***************************************************************************)
(* SpecEvents: one chat request publishing its chunks on the bus, and the  *)
(* connections, aborts and stale sweeps of GET /api/events                 *)
(***************************************************************************)
ChatSessions == {"s1", "s2"}

RequestIds == {"r1", "r2"}

\* sessionId and requestId of the chat request, as POST /api/chat returns them
ChatSession == "s1"

ChatRequest == "r1"

EventsIdle ==
    UNCHANGED <<jobs, dmWire, dmRest, dmOut, dmErr, dispatched, disk, wsFile,
                wsLast, handlers, toolsReply, runStdout, agentTools, served,
                regLog, bus, proc>>

\* POST /api/chat: processStreamText is started in the background and the
\* response with sessionId and requestId is returned without waiting for it
PostChat ==
    /\ sse.chat = "none"
    /\ sse' = [sse EXCEPT !.chat = "processing"]
    /\ EventsIdle

\* the subscriber of a connection: sendChunk when sessionId and requestId of
\* the event are those of the connection; enqueue on a closed controller
\* throws, which sendChunk catches
OnChatEvent(conn, sessionId, requestId, chunk) ==
    IF conn.sessionId = sessionId /\ conn.requestId = requestId /\ ~conn.closed
    THEN [conn EXCEPT !.enqueued = Append(@, chunk)]
    ELSE conn

\* processStreamText reads the next chunk and awaits
\* Bus.publish(ChatEvent, {sessionId, requestId, chunk}): the subscribers in
\* the list at that moment are invoked
PublishChunk ==
    /\ sse.chat = "processing"
    /\ Len(sse.published) < MaxChunks
    /\ LET chunk == Len(sse.published) + 1
           subscribed == {sse.subs[i] : i \in DOMAIN sse.subs}
       IN  sse' = [sse EXCEPT
                     !.published = Append(@, chunk),
                     !.conns = [c \in DOMAIN sse.conns |->
                                   IF c \in subscribed
                                   THEN OnChatEvent(sse.conns[c], ChatSession,
                                                    ChatRequest, chunk)
                                   ELSE sse.conns[c]]]
    /\ EventsIdle

\* reader.read() returns done: processStreamText ends
StreamDone ==
    /\ sse.chat = "processing"
    /\ sse' = [sse EXCEPT !.chat = "done"]
    /\ EventsIdle

\* GET /api/events?sessionId=..&requestId=..: start(controller) subscribes
\* to ChatEvent and pushes the connection to the list of its session.
\* transport marks the request that sendMessages makes with the identifiers
\* of the chat response.
OpenEvents(sessionId, requestId, transport) ==
    /\ Len(sse.conns) < MaxConns
    /\ transport =>
           /\ sse.chat # "none"
           /\ sessionId = ChatSession /\ requestId = ChatRequest
           /\ \A c \in DOMAIN sse.conns : ~sse.conns[c].transport
    /\ LET c == Len(sse.conns) + 1
           connections == IF sessionId \in DOMAIN sse.activeConnections
                          THEN sse.activeConnections[sessionId] ELSE <<>>
       IN  sse' = [sse EXCEPT
                     !.subs = Append(@, c),
                     !.conns = Append(@, [sessionId |-> sessionId,
                                          requestId |-> requestId,
                                          transport |-> transport,
                                          enqueued |-> <<>>, closed |-> FALSE,
                                          aborted |-> FALSE, swept |-> FALSE,
                                          old |-> FALSE]),
                     !.activeConnections =
                         [k \in DOMAIN sse.activeConnections \cup {sessionId} |->
                             IF k = sessionId THEN Append(connections, c)
                             ELSE sse.activeConnections[k]]]
    /\ EventsIdle

\* the list without the subscription of connection c (its callback is a
\* closure of its own, so indexOf finds this one or none)
Unsubscribed(subs, c) == LET Other(x) == x # c IN SelectSeq(subs, Other)

\* connections.findIndex((conn) => conn.requestId === requestId), 0 for -1
FindIndex(connections, conns, requestId) ==
    IF \E i \in DOMAIN connections : conns[connections[i]].requestId = requestId
    THEN CHOOSE i \in DOMAIN connections :
             /\ conns[connections[i]].requestId = requestId
             /\ \A k \in DOMAIN connections :
                    conns[connections[k]].requestId = requestId => i <= k
    ELSE 0

\* the abort event of the request of connection c: cleanup
Abort(c) ==
    /\ c \in DOMAIN sse.conns
    /\ ~sse.conns[c].aborted
    /\ LET sessionId == sse.conns[c].sessionId
           present == sessionId \in DOMAIN sse.activeConnections
           connections == IF present THEN sse.activeConnections[sessionId]
                          ELSE <<>>
           index == FindIndex(connections, sse.conns, sse.conns[c].requestId)
           rest == Splice(connections, index)
       IN  sse' = [sse EXCEPT
                     !.subs = Unsubscribed(@, c),
                     !.conns[c].closed = TRUE,
                     !.conns[c].aborted = TRUE,
                     !.activeConnections =
                         IF ~present \/ index = 0 THEN @
                         ELSE IF rest = <<>>
                         THEN [k \in DOMAIN @ \ {sessionId} |-> @[k]]
                         ELSE [@ EXCEPT ![sessionId] = rest]]
    /\ EventsIdle

\* five minutes have passed since createdAt of connection c (and of every
\* connection opened before it)
BecomeStale(c) ==
    /\ c \in DOMAIN sse.conns
    /\ ~sse.conns[c].old
    /\ \A b \in 1..(c - 1) : sse.conns[b].old
    /\ sse' = [sse EXCEPT !.conns[c].old = TRUE]
    /\ EventsIdle

\* the callback of staleCleanupInterval
StaleSweep ==
    /\ LET Active(c) == ~sse.conns[c].old
           stale == {c \in DOMAIN sse.conns :
                        /\ sse.conns[c].old
                        /\ \E k \in DOMAIN sse.activeConnections :
                               \E i \in DOMAIN sse.activeConnections[k] :
                                   sse.activeConnections[k][i] = c}
           active == [k \in DOMAIN sse.activeConnections |->
                         SelectSeq(sse.activeConnections[k], Active)]
           NotStale(x) == x \notin stale
       IN  sse' = [sse EXCEPT
                     !.subs = SelectSeq(@, NotStale),
                     !.conns = [c \in DOMAIN sse.conns |->
                                   IF c \in stale
                                   THEN [sse.conns[c] EXCEPT !.closed = TRUE,
                                                             !.swept = TRUE]
                                   ELSE sse.conns[c]],
                     !.activeConnections =
                         [k \in {x \in DOMAIN active : active[x] # <<>>} |->
                             active[k]]]
    /\ EventsIdle

NextEvents ==
    \/ PostChat
    \/ PublishChunk
    \/ StreamDone
    \/ \E sessionId \in ChatSessions, requestId \in RequestIds,
          transport \in BOOLEAN : OpenEvents(sessionId, requestId, transport)
    \/ \E c \in 1..MaxConns : Abort(c)
    \/ \E c \in 1..MaxConns : BecomeStale(c)
    \/ StaleSweep

SpecEvents == Init /\ [][NextEvents]_vars

(***************************************************************************)
(* SpecProcessor: one processor of createProcessor: next, end and process  *)
(* over the tool events of a stream                                        *)
(***************************************************************************)
CallIds == {"c1", "c2"}

\* what process() can catch: the error of an "error" event or of the stream
\* as MessageV2.fromError classifies it (an API error that is retryable or
\* one that is not) and the abort of input.abort.throwIfAborted()
ErrorKinds == {"api-retryable", "api-final", "aborted"}

\* the retries argument of process()
RetryInputs == {[count |-> 0, max |-> 1], [count |-> 1, max |-> 1]}

ProcessorIdle ==
    UNCHANGED <<jobs, dmWire, dmRest, dmOut, dmErr, dispatched, disk, wsFile,
                wsLast, handlers, toolsReply, runStdout, agentTools, served,
                regLog, bus, sse>>

\* Session.updatePart(part): the part is stored under its message and id,
\* replacing the part stored there, and returned
updatePart(parts, part) ==
    LET key == <<part.messageID, part.id>>
    IN  [k \in DOMAIN parts \cup {key} |-> IF k = key THEN part ELSE parts[k]]

\* MessageV2.parts(messageID)
PartsOf(parts, messageID) == {k \in DOMAIN parts : k[1] = messageID}

CurrentMsg == CHOOSE m \in proc.assistantMsg : TRUE

\* next(parentID): throws when the previous message has not been ended
ProcessorNext ==
    /\ proc.pc # "streaming"
    /\ proc.assistantMsg = {}
    /\ Len(proc.messages) < MaxRuns
    /\ proc' = [proc EXCEPT
                   !.messages = Append(@, [completed |-> FALSE, error |-> {}]),
                   !.assistantMsg = {Len(proc.messages) + 1},
                   !.pc = "idle"]
    /\ ProcessorIdle

\* end()
ProcessorEnd ==
    /\ proc.pc # "streaming"
    /\ proc.assistantMsg # {}
    /\ proc' = [proc EXCEPT
                   !.messages[CurrentMsg].completed = TRUE,
                   !.assistantMsg = {},
                   !.pc = "idle"]
    /\ ProcessorIdle

\* process(stream, retries) is called: on a new message, or again after a
\* return with shouldRetry
ProcessStart(retries) ==
    /\ proc.pc # "streaming"
    /\ proc.assistantMsg # {}
    /\ ~proc.messages[CurrentMsg].completed
    /\ proc.runs < MaxRuns
    /\ proc' = [proc EXCEPT !.pc = "streaming", !.retries = retries,
                            !.runs = @ + 1, !.ret = NoReturn]
    /\ ProcessorIdle

\* the state of the processor after one tool event of stream.fullStream
AfterEvent(p, type, callID) ==
    LET known == callID \in DOMAIN p.toolcalls
        Set(part) ==
            [p EXCEPT
               !.parts = updatePart(p.parts, part),
               !.toolcalls = [c \in DOMAIN p.toolcalls \cup {callID} |->
                                 IF c = callID THEN part ELSE p.toolcalls[c]]]
        Finish(part) ==
            [p EXCEPT
               !.parts = updatePart(p.parts, part),
               !.toolcalls = [c \in DOMAIN p.toolcalls \ {callID} |->
                                 p.toolcalls[c]]]
    IN  IF type = "tool-input-start"
        THEN LET q == Set([id |-> IF known THEN p.toolcalls[callID].id
                                  ELSE p.nextPart,
                           messageID |-> CHOOSE m \in p.assistantMsg : TRUE,
                           type |-> "tool", callID |-> callID,
                           status |-> "pending", error |-> "", attempt |-> 0])
             IN  IF known THEN q ELSE [q EXCEPT !.nextPart = @ + 1]
        ELSE IF type = "tool-call"
        THEN IF known
             THEN Set([p.toolcalls[callID] EXCEPT !.status = "running"])
             ELSE p
        ELSE IF known /\ p.toolcalls[callID].status = "running"
        THEN IF type = "tool-result"
             THEN Finish([p.toolcalls[callID] EXCEPT !.status = "completed"])
             ELSE Finish([p.toolcalls[callID] EXCEPT !.status = "error",
                                                    !.error = "tool error"])
        ELSE p

ToolEventTypes == {"tool-input-start", "tool-call", "tool-result", "tool-error"}

\* the loop of process() takes the next event of the stream.  The events
\* for text, reasoning and steps touch no tool part and are left out.
ProcessEvent(type, callID) ==
    /\ proc.pc = "streaming"
    /\ proc.seen < MaxEvents
    /\ proc' = [AfterEvent(proc, type, callID) EXCEPT !.seen = @ + 1]
    /\ ProcessorIdle

\* retries.count < retries.max && APIError.isInstance(error) &&
\* error.data.isRetryable, for the errors caught
RetryAtLimit(retries, failed) ==
    retries.count <= retries.max /\ failed = {"api-retryable"}

ShouldRetry(retries, failed) ==
    retries.count < retries.max /\ failed = {"api-retryable"}

\* the loop over MessageV2.parts(assistantMsg.id) that marks pending parts
\* only
AbortPending(parts, messageID) ==
    [k \in DOMAIN parts |->
        IF /\ k[1] = messageID
           /\ parts[k].type = "tool"
           /\ parts[k].status = "pending"
        THEN [parts[k] EXCEPT !.status = "error",
                              !.error = "Tool execution aborted"]
        ELSE parts[k]]

\* the loop over MessageV2.parts(assistantMsg.id): every tool part that is
\* neither completed nor error becomes error "Tool execution aborted"
AbortUnfinished(parts, messageID) ==
    [k \in DOMAIN parts |->
        IF /\ k[1] = messageID
           /\ parts[k].type = "tool"
           /\ parts[k].status \notin {"completed", "error"}
        THEN [parts[k] EXCEPT !.status = "error",
                              !.error = "Tool execution aborted"]
        ELSE parts[k]]

\* the end of process(): failed is empty when the stream ended (with or
\* without a "finish" event, which marks the message completed as the end
\* of process does), else it holds the error caught
ProcessReturn(failed) ==
    /\ proc.pc = "streaming"
    /\ LET m == CurrentMsg
           shouldRetry == ShouldRetry(proc.retries, failed)
           retryPart == [id |-> proc.nextPart, messageID |-> m,
                         type |-> "retry", callID |-> "", status |-> "",
                         error |-> "", attempt |-> proc.retries.count + 1]
           caught == IF shouldRetry THEN updatePart(proc.parts, retryPart)
                     ELSE proc.parts
       IN  proc' = [proc EXCEPT
                      !.parts = AbortUnfinished(caught, m),
                      !.nextPart = IF shouldRetry THEN @ + 1 ELSE @,
                      !.messages[m].error =
                          IF failed # {} /\ ~shouldRetry THEN failed ELSE @,
                      !.messages[m].completed =
                          IF shouldRetry THEN @ ELSE TRUE,
                      !.errorEvents =
                          IF failed # {} /\ ~shouldRetry
                          THEN @ \cup {[sessionID |-> m, error |-> failed]}
                          ELSE @,
                      !.pc = "returned",
                      !.ret = [shouldRetry |-> shouldRetry, failed |-> failed]]
    /\ ProcessorIdle

NextProcessor ==
    \/ ProcessorNext
    \/ ProcessorEnd
    \/ \E retries \in RetryInputs : ProcessStart(retries)
    \/ \E type \in ToolEventTypes, callID \in CallIds :
           ProcessEvent(type, callID)
    \/ ProcessReturn({})
    \/ \E kind \in ErrorKinds : ProcessReturn({kind})

SpecProcessor == Init /\ [][NextProcessor]_vars

(***************************************************************************)
(* Properties                                                              *)
(***************************************************************************)
Terminal(j) == jobs[j].container \in {"exited", "removed"}

Answered(j) == jobs[j].pc = "responded"

AnsweredOk(j) == Answered(j) /\ jobs[j].response.status = 200

HasFile(j, name) == name \in DOMAIN jobs[j].files

\* C1 (SpecDemux): once every chunk of the stream has been delivered, the
\* stdout and stderr accumulators hold the same bytes as after one call of
\* demuxDockerStream on the whole stream, however the stream was cut.
C1_ChunkedEqualsWhole ==
    dmRest = <<>> =>
        LET whole == demuxDockerStream(dmWire, <<>>, <<>>)
        IN  /\ Concat(dmOut) = Concat(whole[1])
            /\ Concat(dmErr) = Concat(whole[2])

\* C2, for the tool type code_execution and leaving aside the jobs that an
\* engine or file system error ended: a job whose container was still
\* running when the timeout had elapsed is answered with exitCode -1 and
\* its stderr file holds the timeout message naming the configured timeout.
C2_TimeoutGivesSentinel ==
    \A j \in Jobs :
        (/\ AnsweredOk(j)
         /\ jobs[j].tool = "code_execution"
         /\ jobs[j].runningAtDeadline)
        => /\ jobs[j].response.exitCode = {TimeoutSentinel}
           /\ HasFile(j, <<"stderr">>)
           /\ ContainsTimeoutMessage(jobs[j].files[<<"stderr">>],
                                     jobs[j].timeout)

\* C3 (LiveSpec): every request that passed validation is answered, also
\* when the command in the container never exits.
C3_EveryRequestAnswered ==
    \A j \in Jobs : (jobs[j].pc = "createWorkspace") ~> Answered(j)

\* C4, for jobs whose input file is not itself named stdout or stderr: no
\* state has a stdout or stderr file of a job whose container is still
\* running.
C4_OutputOnlyAfterTerminal ==
    \A j \in Jobs :
        (/\ jobs[j].filename \notin {<<"stdout">>, <<"stderr">>}
         /\ HasFile(j, <<"stdout">>) \/ HasFile(j, <<"stderr">>))
        => jobs[j].container # "running"

\* C5: in a normal response the names of inputs and outputs together are
\* exactly the files of the workspace, and no name is in both.
C5_ManifestPartitionsWorkspace ==
    \A j \in Jobs :
        AnsweredOk(j) =>
            /\ jobs[j].response.inputs \cup jobs[j].response.outputs
                   = DOMAIN jobs[j].files
            /\ jobs[j].response.inputs \cap jobs[j].response.outputs = {}

\* C6: a handler is only invoked for the request's tool and with an input of
\* the shape that handler declares; a request that names a registered tool
\* and carries only the other tool's fields never reaches a handler.
C6_HandlerGetsItsOwnShape ==
    \A j \in Jobs :
        /\ \A call \in jobs[j].invoked :
               /\ call.handler = jobs[j].tool
               /\ call.input = HandlerVariant(call.handler)
        /\ (/\ jobs[j].tool \in RegisteredTools
            /\ jobs[j].reqShape \in {"code", "doc"}
            /\ jobs[j].reqShape # HandlerVariant(jobs[j].tool))
           => jobs[j].invoked = {}

\* C7: once a job is answered, its container neither exists unstarted nor
\* runs.
C7_NoContainerLeftBehind ==
    \A j \in Jobs :
        Answered(j) => jobs[j].container \notin {"created", "running"}

\* the container exited by itself, and did so before the timeout had elapsed
OwnExitBeforeTimeout(j) ==
    /\ jobs[j].statusCode # {}
    /\ jobs[j].statusCode \subseteq StatusCodes
    /\ ~jobs[j].runningAtDeadline

\* C8 as stated, leaving aside the jobs that an engine or file system error
\* ended: when the container exited by itself before the timeout, the
\* exitCode of the response is the status code the container reported.
C8_OwnExitCodeReturned ==
    \A j \in Jobs :
        (AnsweredOk(j) /\ OwnExitBeforeTimeout(j))
        => jobs[j].response.exitCode = jobs[j].statusCode

\* C8 amended: when container.wait() resolved before the timer fired, the
\* handler's exitCode is the status code the container reported, unchanged,
\* and the job is answered with a normal response carrying that code, or,
\* when the write of stdout or stderr failed, with the execution error.
C8_ObservedExitCodeUnchanged ==
    \A j \in Jobs :
        (jobs[j].exitCode # {} /\ ~jobs[j].timedOut)
        => /\ jobs[j].exitCode = jobs[j].statusCode
           /\ jobs[j].statusCode \subseteq StatusCodes
           /\ Answered(j) =>
                 \/ /\ jobs[j].response.status = 200
                    /\ jobs[j].response.exitCode = jobs[j].statusCode
                 \/ /\ jobs[j].response.status = 500
                    /\ jobs[j].response.details \in
                           {"write stdout failed", "write stderr failed"}

C8_Witness ==
    \E j \in Jobs :
        /\ AnsweredOk(j)
        /\ ~jobs[j].timedOut
        /\ jobs[j].statusCode = {5}
        /\ jobs[j].response.exitCode = {5}

HasTimeoutMessage(j) ==
    ContainsTimeoutMessage(Concat(jobs[j].stderrChunks), jobs[j].timeout)

\* C9: exitCode is -1 exactly when the timer won the race (the TIMEOUT
\* rejection was caught, timedOut is set and kill was called); the stderr
\* accumulator holds the timeout message only if exitCode is -1, and holds it
\* whenever exitCode is -1 once the try/catch around the race is left (the
\* kill call has settled); no job has both a status code reported by the
\* container as its exitCode and the timeout message.
C9_OutcomesExclusive ==
    \A j \in Jobs :
        /\ Cardinality(jobs[j].exitCode) <= 1
        /\ (jobs[j].exitCode = {TimeoutSentinel})
               <=> (jobs[j].timedOut /\ jobs[j].killCalls = 1)
        /\ jobs[j].timedOut <=> (jobs[j].killCalls = 1)
        /\ HasTimeoutMessage(j) => jobs[j].exitCode = {TimeoutSentinel}
        /\ (jobs[j].exitCode = {TimeoutSentinel} /\ jobs[j].pc # "killing")
               => HasTimeoutMessage(j)
        /\ ~(jobs[j].exitCode \cap StatusCodes # {} /\ HasTimeoutMessage(j))

C9_Witness ==
    \E j \in Jobs :
        /\ AnsweredOk(j)
        /\ jobs[j].response.exitCode = {TimeoutSentinel}
        /\ jobs[j].container = "running"
        /\ HasTimeoutMessage(j)

\* C10: kill is called only in the step in which the timer fires while the
\* race is still open; a timer that fires when the race is already settled
\* changes nothing but the timer itself; a running container is stopped by a
\* kill only while the handler awaits the kill it called on timeout.
C10_KillOnlyByOpenRaceTimer ==
    [][\A j \in Jobs :
        /\ (jobs'[j].killCalls # jobs[j].killCalls)
               => /\ jobs[j].pc = "racing"
                  /\ jobs[j].timer = "armed"
                  /\ jobs'[j].timer = "fired"
        /\ (/\ jobs[j].timer = "armed"
            /\ jobs'[j].timer = "fired"
            /\ jobs[j].pc # "racing")
               => jobs'[j] = [jobs[j] EXCEPT !.timer = "fired"]
        /\ (/\ jobs[j].container = "running"
            /\ jobs'[j].container # "running"
            /\ jobs'[j].statusCode = KilledStatus)
               => /\ jobs[j].pc = "killing"
                  /\ jobs[j].killCalls = 1
                  /\ jobs[j].timedOut]_vars

C10_Witness ==
    \E j \in Jobs :
        /\ AnsweredOk(j)
        /\ jobs[j].timer = "fired"
        /\ ~jobs[j].timedOut
        /\ jobs[j].killCalls = 0
        /\ jobs[j].response.exitCode = {5}
        /\ ~HasTimeoutMessage(j)

WriteFailures == {"write stdout failed", "write stderr failed"}

\* C11: a job whose kill call failed after the timeout keeps exitCode -1 and
\* the timeout message in its stderr accumulator; the failure of the kill is
\* never the error of the response: the job is answered with a normal
\* response carrying exitCode -1, with the stdout and stderr files written
\* and the timeout message in the stderr file, or, when the write of stdout
\* or stderr itself failed, with that write's execution error.
C11_KillFailureOnlyLogged ==
    \A j \in Jobs :
        jobs[j].killFailed =>
            /\ jobs[j].timedOut
            /\ jobs[j].exitCode = {TimeoutSentinel}
            /\ HasTimeoutMessage(j)
            /\ jobs[j].pc \in {"writeStdout", "writeStderr", "listFiles",
                               "responded"}
            /\ Answered(j) =>
                  \/ /\ jobs[j].response.status = 200
                     /\ jobs[j].response.exitCode = {TimeoutSentinel}
                     /\ HasFile(j, <<"stdout">>)
                     /\ HasFile(j, <<"stderr">>)
                     /\ ContainsTimeoutMessage(jobs[j].files[<<"stderr">>],
                                               jobs[j].timeout)
                  \/ /\ jobs[j].response.status = 500
                     /\ jobs[j].response.details \in WriteFailures

C11_Witness ==
    \E j \in Jobs :
        /\ AnsweredOk(j)
        /\ jobs[j].killFailed
        /\ jobs[j].response.exitCode = {TimeoutSentinel}
        /\ ContainsTimeoutMessage(jobs[j].files[<<"stderr">>], jobs[j].timeout)

\* the request is one that the two safeParse calls reject: tool or sessionId
\* missing or empty, timeout out of range, or a body no tool schema accepts
FailsValidation(j) ==
    \/ ~AgentParamsOk(jobs[j].tool, jobs[j].reqSessionOk, jobs[j].reqTimeout)
    \/ ToolRequestVariant(jobs[j].reqShape) = "none"

ValidationErrors ==
    {"Invalid request body (agent params)", "Invalid request body (tool params)"}

C13_UnknownToolGetsToolList ==
    \A j \in Jobs :
        (/\ jobs[j].pc # "idle"
         /\ AgentParamsOk(jobs[j].tool, jobs[j].reqSessionOk, jobs[j].reqTimeout)
         /\ jobs[j].tool \notin RegisteredTools)
        => /\ Answered(j)
           /\ jobs[j].response.availableTools = RegisteredTools
           /\ ~jobs[j].wsExists

\* the request passed validation and names a registered tool
Dispatched(j) ==
    /\ jobs[j].pc # "idle"
    /\ ~FailsValidation(j)
    /\ jobs[j].tool \in RegisteredTools

\* C14: a dispatched request that is not answered with a normal response is
\* answered with status 500, the error "Tool execution failed" and the
\* message of the exception.
C14_FailureIsExecutionError ==
    \A j \in Jobs :
        (Dispatched(j) /\ Answered(j) /\ jobs[j].response.status # 200)
        => /\ jobs[j].response.status = 500
           /\ jobs[j].response.error = "Tool execution failed"
           /\ jobs[j].response.details # ""

EngineErrors ==
    {"createContainer failed", "attach failed", "start failed", "wait failed"}

\* C15: a job ended by an exception of the container engine (create,
\* attach, start, or wait rejecting) has no stdout and no stderr file other
\* than an input file of that name, and its input file still holds the
\* content the supervisor wrote.
C15_EngineErrorWritesNothing ==
    \A j \in Jobs :
        (Answered(j) /\ jobs[j].response.details \in EngineErrors)
        => /\ \A name \in {<<"stdout">>, <<"stderr">>} :
                  HasFile(j, name) => name = jobs[j].filename
           /\ HasFile(j, jobs[j].filename)
           /\ jobs[j].files[jobs[j].filename] = InputContent

C15_Witness ==
    \E j \in Jobs :
        /\ Answered(j)
        /\ jobs[j].response.details = "wait failed"
        /\ jobs[j].stdoutChunks # <<>>
        /\ ~HasFile(j, <<"stdout">>)
        /\ jobs[j].files[jobs[j].filename] = InputContent

\* C16: a job answered with a normal response after its container exited
\* without a timeout has, in its stdout file and in its stderr file, exactly
\* the bytes the process wrote to that stream, in order, whatever the order
\* of the data deliveries and the resolution of container.wait().
C16_NoOutputLost ==
    \A j \in Jobs :
        (AnsweredOk(j) /\ ~jobs[j].timedOut)
        => /\ jobs[j].files[<<"stdout">>] = jobs[j].wroteOut
           /\ jobs[j].files[<<"stderr">>] = jobs[j].wroteErr

\* C17: a job answered with a normal response, after a normal exit or a
\* timeout and whatever the filename of its input, has a stdout and a stderr
\* file in its workspace and both names among the outputs of the response.
C17_StdoutStderrAreOutputs ==
    \A j \in Jobs :
        AnsweredOk(j) =>
            /\ HasFile(j, <<"stdout">>)
            /\ HasFile(j, <<"stderr">>)
            /\ {<<"stdout">>, <<"stderr">>} \subseteq jobs[j].response.outputs

\* C18: in a normal response (no command of the model removes the input
\* file) inputs is exactly the filename the caller gave, outputs does not
\* contain it, and every other file of the workspace is among the outputs.
C18_InputListedOnceOutputsComplete ==
    \A j \in Jobs :
        AnsweredOk(j) =>
            /\ jobs[j].response.inputs = {jobs[j].filename}
            /\ jobs[j].filename \notin jobs[j].response.outputs
            /\ (DOMAIN jobs[j].files) \ {jobs[j].filename}
                   \subseteq jobs[j].response.outputs

\* C19 (SpecStore): any two dispatched jobs have different workspace
\* directories, also two jobs of the same session.
C19_WorkspacesDistinct ==
    \A m, n \in DOMAIN dispatched :
        m # n => dispatched[m].workDir # dispatched[n].workDir

IsPrefix(p, q) == Len(p) <= Len(q) /\ SubSeq(q, 1, Len(p)) = p

\* C20 (SpecStore): the path of every file written for a job lies below the
\* workspace directory of that job.
C20_WritesStayInWorkspace ==
    \A w \in disk :
        /\ IsPrefix(dispatched[w.job].workDir, w.path)
        /\ Len(w.path) > Len(dispatched[w.job].workDir)

C22_ArtifactUrlResolvesToFile ==
    \A w \in disk :
        LET job == dispatched[w.job]
            name == <<w.path[Len(w.path)]>>
        IN  w.path = job.workDir \o name =>
                \E params \in ArtifactRouteParams(
                                  generateArtifactUrl(job.sessionId, job.id, name)) :
                    getArtifactPath(params.sessionId, params.jobId,
                                    params.filename) = w.path

\* C23: in a normal response to a document conversion (no command of the
\* model modifies the input file) the workspace file named by the request's
\* filename holds the decoded fileContent, whatever the filename.
C23_InputArtifactIntact ==
    \A j \in Jobs :
        (AnsweredOk(j) /\ jobs[j].tool = "document_converter")
        => /\ HasFile(j, jobs[j].filename)
           /\ jobs[j].files[jobs[j].filename] = InputContent

\* C24: a normal response carries a stdout field exactly when the stdout
\* captured for the job (the content of its stdout file) is not empty, and
\* likewise for stderr.
C24_StreamFieldsPresentWhenNonEmpty ==
    \A j \in Jobs :
        AnsweredOk(j) =>
            /\ (jobs[j].response.stdout # {})
                   <=> (jobs[j].files[<<"stdout">>] # <<>>)
            /\ (jobs[j].response.stderr # {})
                   <=> (jobs[j].files[<<"stderr">>] # <<>>)

\* C25: the timeout of a job whose handler was invoked is an integer from 1
\* to 900, it is 30 when the request had none and the request's own value
\* otherwise; a request whose timeout is not an integer or lies outside
\* 1..900 is answered with the validation error and has no workspace, no
\* handler invocation and no container.
C25_HandlerTimeoutInRange ==
    \A j \in Jobs :
        /\ jobs[j].invoked # {} =>
               /\ jobs[j].timeout \in MinTimeout..MaxTimeout
               /\ jobs[j].reqTimeout = {} => jobs[j].timeout = DefaultTimeout
               /\ jobs[j].reqTimeout # {} => jobs[j].reqTimeout = {jobs[j].timeout}
        /\ (/\ jobs[j].pc # "idle"
            /\ \/ Cardinality(jobs[j].reqTimeout) > 1
               \/ \E t \in jobs[j].reqTimeout : t \notin MinTimeout..MaxTimeout)
           => /\ Answered(j)
              /\ jobs[j].response.status = 400
              /\ jobs[j].response.error = "Invalid request body (agent params)"
              /\ ~jobs[j].wsExists
              /\ jobs[j].invoked = {}
              /\ jobs[j].container = "none"

C25_Witness ==
    \E j \in Jobs :
        /\ AnsweredOk(j)
        /\ jobs[j].invoked # {}
        /\ jobs[j].reqTimeout = {}
        /\ jobs[j].timeout = DefaultTimeout

C27_ContainerIsConfined ==
    \A j \in Jobs :
        /\ jobs[j].container = "none" <=> jobs[j].hostConfig = {}
        /\ \A config \in jobs[j].hostConfig :
               /\ config.NetworkMode = "none"
               /\ config.Memory = 536870912
               /\ config.PidsLimit = 128
               /\ config.CpuQuota > 0
               /\ config.AutoRemove
               /\ config.Binds = {[host |-> WorkDirOf(j),
                                    container |-> <<"workspace">>]}

C27_Witness ==
    \E j \in Jobs :
        /\ jobs[j].tool = "code_execution"
        /\ jobs[j].container = "running"
        /\ jobs[j].hostConfig = {CodeExecutionHostConfig(WorkDirOf(j))}

\* the stdout and stderr content POST /run writes: stdoutChunks.join(""),
\* and the join of stderrChunks, to which nothing is ever pushed
RunStdoutContent == runStdout

RunStderrContent == <<>>

\* C28 (SpecDemux): once the whole attach stream of a container has been
\* delivered, the stdout and stderr content written by POST /run equals the
\* content written by the code execution tool for the same deliveries.
C28_LegacyRunSameFiles ==
    dmRest = <<>> =>
        /\ RunStdoutContent = Utf8RoundTrip(Concat(dmOut))
        /\ RunStderrContent = Utf8RoundTrip(Concat(dmErr))

\* C29 (SpecRegistry): whenever the agent has run createTools, the tools it
\* got are the tool types the supervisor published in its GET /tools reply
\* that have an entry in TOOL_SCHEMAS.
C29_AgentToolsInSync ==
    \A result \in agentTools :
        result.tools = result.published \cap ToolSchemas

\* the order of the steps of a job: each pair is a step and the step that
\* follows it
StepOrder ==
    {<<"idle", "createWorkspace">>, <<"createWorkspace", "writeInput">>,
     <<"writeInput", "createContainer">>, <<"createContainer", "attach">>,
     <<"attach", "start">>, <<"start", "waiting">>, <<"start", "racing">>,
     <<"waiting", "writeStdout">>, <<"racing", "writeStdout">>,
     <<"racing", "killing">>, <<"killing", "writeStdout">>,
     <<"writeStdout", "writeStderr">>, <<"writeStderr", "listFiles">>,
     <<"listFiles", "responded">>}

\* what has been done for a job implies that every earlier step was done
StepsDoneInOrder(job) ==
    /\ job.invoked # {} => job.wsExists
    /\ job.files # NoFiles => job.wsExists
    /\ job.container # "none" =>
           /\ job.wsExists
           /\ job.invoked # {}
           /\ job.filename \in DOMAIN job.files
    /\ job.attached => job.container # "none"
    /\ job.container \in {"running", "exited", "removed"} => job.attached
    /\ job.exitCode # {} => job.container \notin {"none", "created"}
    /\ job.pc \in {"writeStdout", "writeStderr", "listFiles"} => job.exitCode # {}
    /\ (\E name \in {<<"stdout">>, <<"stderr">>} :
            name \in DOMAIN job.files /\ name # job.filename)
           => job.exitCode # {}
    /\ <<"stderr">> \in DOMAIN job.files => <<"stdout">> \in DOMAIN job.files
    /\ job.response.status = 200 =>
           /\ job.exitCode # {}
           /\ {<<"stdout">>, <<"stderr">>} \subseteq DOMAIN job.files
           /\ {<<"stdout">>, <<"stderr">>}
                  \subseteq job.response.inputs \cup job.response.outputs

\* C30: a job moves from a step only to the step that follows it, or to its
\* response when the step fails, and in every state what has been done for
\* the job was done in this order: workspace, input file, container, attach
\* with the data listener, start, exit or timeout observed, stdout then
\* stderr written, workspace listed; no handler is invoked and no container
\* exists for a job without workspace.
C30_StepsInOrder ==
    [][\A j \in Jobs :
          /\ jobs'[j].pc # jobs[j].pc =>
                 \/ <<jobs[j].pc, jobs'[j].pc>> \in StepOrder
                 \/ jobs'[j].pc = "responded" /\ jobs'[j].response.status # 200
          /\ StepsDoneInOrder(jobs'[j])]_vars

C30_Witness ==
    \E j \in Jobs :
        /\ AnsweredOk(j)
        /\ jobs[j].tool = "document_converter"
        /\ jobs[j].timedOut
        /\ jobs[j].filename = <<"a.py">>
        /\ <<"out.md">> \in jobs[j].response.outputs

\* C31 (SpecStore): every file sent by GET /artifacts lies in the storage
\* root and inside the workspace <storage-root>/<sessionId>/job-<jobId> of
\* the session and job the route parameters name.
C31_ArtifactServedFromOwnWorkspace ==
    \A r \in served :
        LET workDir == StorageRoot \o r.sessionId \o <<JobDirName(r.jobId)>>
        IN  /\ IsPrefix(StorageRoot, r.path)
            /\ IsPrefix(workDir, r.path)
            /\ Len(r.path) > Len(workDir)

\* C32 (SpecRegistry): after any sequence of register calls, get(t) is the
\* handler last registered with tool type t and undefined for a type never
\* registered, has(t) is true exactly when get(t) is defined, and
\* getToolTypes and getTools both list the registered tool types once each
\* in the order of their first registration.
C32_RegistryLookupAndOrder ==
    /\ \A t \in ToolTypes :
           /\ get(handlers, t) = IF t \in DOMAIN regLog.last
                                 THEN {regLog.last[t]} ELSE {}
           /\ has(handlers, t) <=> get(handlers, t) # {}
    /\ getToolTypes(handlers) = regLog.order
    /\ [i \in DOMAIN getTools(handlers) |-> getTools(handlers)[i].toolType]
           = regLog.order
    /\ \A i, k \in DOMAIN regLog.order :
           regLog.order[i] = regLog.order[k] => i = k

C32_Witness ==
    /\ regLog.replaced
    /\ regLog.order = <<"document_converter", "code_execution">>
    /\ get(handlers, "document_converter")
           = {[toolType |-> "document_converter", description |-> "d2",
               inputSchema |-> "doc"]}
    /\ ~has(handlers, "web_search")

\* the numbers of a sequence of raw calls, without those in a set
Without(ids, removed) ==
    LET Keep(id) == id \notin removed IN SelectSeq(ids, Keep)

Occurrences(seq, x) == Cardinality({i \in DOMAIN seq : seq[i] = x})

\* C33 (SpecBus): the last Bus.publish(def, props) invoked the callbacks
\* subscribed to def.type and then those subscribed through subscribeAll,
\* each group in subscription order and each once (a subscription whose
\* unsubscribe function was called during the delivery aside), invoked no
\* callback of another type, and its promise has resolved only after every
\* promise returned by a subscriber.
C33_PublishInvokesSubscribersInOrder ==
    LET pub == bus.publish
        logIds == [i \in DOMAIN pub.log |-> pub.log[i].id]
    IN  pub.type # "" =>
            /\ Without(logIds, pub.removed)
                   = Without(pub.startType \o pub.startAll, pub.removed)
            /\ \A i \in DOMAIN pub.log :
                   /\ bus.created[pub.log[i].id].key \in {pub.type, "*"}
                   /\ Occurrences(logIds, pub.log[i].id) = 1
                   /\ pub.log[i].payload
                          = [type |-> pub.type, properties |-> pub.properties]
            /\ pub.resolved => pub.pending = {}

\* C34 (SpecBus): the list of every key holds the callbacks of the raw calls
\* for that key whose unsubscribe function has not been called, in the
\* order of the calls: an unsubscribe function removes the subscription of
\* its own raw call and no other, however often it is called.
C34_UnsubscribeRemovesOwnSubscription ==
    \A key \in BusKeys :
        LET Mine(id) == bus.created[id].key = key /\ id \notin bus.called
            expected == SelectSeq([id \in DOMAIN bus.created |-> id], Mine)
        IN  [i \in DOMAIN bus.subscriptions[key] |->
                 bus.subscriptions[key][i].callback]
            = [i \in DOMAIN expected |-> bus.created[expected[i]].callback]

\* C35 (SpecBus): in the last publish, every subscription that was in the
\* list of the type when the publish started and whose unsubscribe function
\* was not called during the delivery was invoked exactly once, and no
\* subscription was invoked twice.
C35_UnsubscribeDuringDeliverySkipsNone ==
    LET pub == bus.publish
        logIds == [i \in DOMAIN pub.log |-> pub.log[i].id]
    IN  \A i \in DOMAIN pub.startType :
            LET id == pub.startType[i]
            IN  /\ Occurrences(logIds, id) <= 1
                /\ id \notin pub.removed => Occurrences(logIds, id) = 1

\* C36 (SpecEvents): the event stream that the transport opened for the chat
\* request holds, while it is open, every chunk published for the request
\* so far, in publication order.
C36_NoChunkLostBeforeSubscription ==
    \A c \in DOMAIN sse.conns :
        (sse.conns[c].transport /\ ~sse.conns[c].closed)
        => sse.conns[c].enqueued = sse.published

\* the connections in the lists of activeConnections
RegisteredConns ==
    UNION {{sse.activeConnections[k][i] : i \in DOMAIN sse.activeConnections[k]} :
              k \in DOMAIN sse.activeConnections}

\* C37 (SpecEvents): no session is mapped to an empty list; the lists hold
\* the connections opened and neither aborted nor swept, so an abort has
\* removed the aborting connection and no other; a connection removed by
\* an abort or by the sweep is unsubscribed and its stream closed; and
\* every subscription on the bus belongs to a connection in the lists.
C37_RegistryTracksConnections ==
    /\ \A k \in DOMAIN sse.activeConnections : sse.activeConnections[k] # <<>>
    /\ RegisteredConns
           = {c \in DOMAIN sse.conns :
                 ~sse.conns[c].aborted /\ ~sse.conns[c].swept}
    /\ \A c \in DOMAIN sse.conns :
           (sse.conns[c].aborted \/ sse.conns[c].swept)
           => /\ sse.conns[c].closed
              /\ \A i \in DOMAIN sse.subs : sse.subs[i] # c
    /\ \A i \in DOMAIN sse.subs : sse.subs[i] \in RegisteredConns

\* the moves of a tool part's status that the claim allows: none, or forward
\* along pending, running, then completed or error
ForwardMoves ==
    {<<"pending", "pending">>, <<"running", "running">>,
     <<"completed", "completed">>, <<"error", "error">>,
     <<"pending", "running">>, <<"running", "completed">>,
     <<"running", "error">>, <<"pending", "error">>}

\* C38 (SpecProcessor): in every step a stored tool part keeps its status or
\* moves it forward (pending, running, then completed or error) and a new
\* tool part is pending; and for every next event of the stream:
\* tool-input-start leaves the part of the call pending, tool-call leaves
\* the part of a known call running and changes nothing for an unknown
\* call, tool-result and tool-error remove a running call from the table
\* and change nothing for a call that is not running.
C38_ToolStatusMovesForward ==
    [][/\ \A k \in DOMAIN proc'.parts :
              proc'.parts[k].type = "tool" =>
                  IF k \in DOMAIN proc.parts
                  THEN <<proc.parts[k].status, proc'.parts[k].status>>
                           \in ForwardMoves
                  ELSE proc'.parts[k].status = "pending"
       /\ proc.pc = "streaming" =>
              \A c \in CallIds :
                  LET known == c \in DOMAIN proc.toolcalls
                      running == known /\ proc.toolcalls[c].status = "running"
                  IN  /\ AfterEvent(proc, "tool-input-start", c)
                             .toolcalls[c].status = "pending"
                      /\ IF known
                         THEN AfterEvent(proc, "tool-call", c)
                                  .toolcalls[c].status = "running"
                         ELSE AfterEvent(proc, "tool-call", c) = proc
                      /\ \A type \in {"tool-result", "tool-error"} :
                             IF running
                             THEN c \notin DOMAIN
                                      AfterEvent(proc, type, c).toolcalls
                             ELSE AfterEvent(proc, type, c) = proc]_vars

FinalStatuses == {"completed", "error"}

\* C39 (SpecProcessor): when process() has returned, however the stream
\* ended, every tool part of the current assistant message is completed or
\* error, and those that were neither when the stream ended are error with
\* "Tool execution aborted"; and a new assistant message only starts when
\* there is no current one, end() having cleared it.
C39_NoToolPartLeftUnfinished ==
    [][/\ proc'.pc = "returned" =>
              \A k \in PartsOf(proc'.parts, CHOOSE m \in proc'.assistantMsg : TRUE) :
                  proc'.parts[k].type = "tool" =>
                      /\ proc'.parts[k].status \in FinalStatuses
                      /\ (/\ proc.pc = "streaming"
                          /\ proc.parts[k].status \notin FinalStatuses)
                         => /\ proc'.parts[k].status = "error"
                            /\ proc'.parts[k].error = "Tool execution aborted"
       /\ (proc'.assistantMsg # proc.assistantMsg /\ proc'.assistantMsg # {})
              => proc.assistantMsg = {}]_vars

C39_Witness ==
    /\ proc.pc = "returned"
    /\ proc.assistantMsg = {Len(proc.messages)}
    /\ Len(proc.messages) > 1
    /\ proc.ret.failed = {"aborted"}
    /\ \E k \in PartsOf(proc.parts, CurrentMsg) :
           /\ proc.parts[k].type = "tool"
           /\ proc.parts[k].error = "Tool execution aborted"
    /\ \E c \in DOMAIN proc.toolcalls : proc.toolcalls[c].status = "running"

\* C40 (SpecProcessor): when process() has returned, shouldRetry is true
\* exactly when a retryable API error was caught and retries.count <
\* retries.max; then a retry part with attempt retries.count + 1 is stored
\* and the message has no error and is not completed; otherwise the
\* message is completed and, when an error was caught, the error is on the
\* message and a session error event with it has been published.
C40_RetryOnlyWhenRetryable ==
    proc.pc = "returned" =>
        LET m == CurrentMsg
            msg == proc.messages[m]
        IN  /\ proc.ret.shouldRetry
                   <=> /\ proc.ret.failed = {"api-retryable"}
                       /\ proc.retries.count < proc.retries.max
            /\ proc.ret.shouldRetry =>
                   /\ \E k \in PartsOf(proc.parts, m) :
                          /\ proc.parts[k].type = "retry"
                          /\ proc.parts[k].attempt = proc.retries.count + 1
                   /\ msg.error = {}
                   /\ ~msg.completed
            /\ ~proc.ret.shouldRetry =>
                   /\ msg.completed
                   /\ proc.ret.failed # {} =>
                          /\ msg.error = proc.ret.failed
                          /\ [sessionID |-> m, error |-> proc.ret.failed]
                                 \in proc.errorEvents
                   /\ proc.ret.failed = {} => msg.error = {}

C40_Witness ==
    /\ proc.pc = "returned"
    /\ proc.runs > 1
    /\ ~proc.ret.shouldRetry
    /\ proc.ret.failed = {"api-retryable"}
    /\ proc.messages[CurrentMsg].error = {"api-retryable"}
    /\ \E k \in PartsOf(proc.parts, CurrentMsg) : proc.parts[k].type = "retry"

====
